---- MODULE Spec2Model ----
(***************************************************************************)
(* Semantic Context Engine of the text-to-SQL finance agent: the SQL       *)
(* validator (query-planner.ts), the semantic retriever with its caches    *)
(* (semantic-retriever, embedder, query-cache, qdrant-client) and the      *)
(* runFinanceAgent pipeline (finance-agent.js).                            *)
(*                                                                         *)
(* SQL texts are sequences of one-character strings, so that the regular   *)
(* expressions of the validator are computed character by character.       *)
(***************************************************************************)
EXTENDS Integers, Sequences, FiniteSets, TLC

----------------------------------------------------------------------------
(* Characters and spelled words                                            *)

LowerLetters ==
  <<"a","b","c","d","e","f","g","h","i","j","k","l","m",
    "n","o","p","q","r","s","t","u","v","w","x","y","z">>

UpperLetters ==
  <<"A","B","C","D","E","F","G","H","I","J","K","L","M",
    "N","O","P","Q","R","S","T","U","V","W","X","Y","Z">>

Digits == {"0","1","2","3","4","5","6","7","8","9"}

\* \w of a JavaScript regular expression: [A-Za-z0-9_]
WordChars ==
  {LowerLetters[k] : k \in 1..26} \cup {UpperLetters[k] : k \in 1..26}
    \cup Digits \cup {"_"}

\* \s, restricted to the blank: the generated statements are single-line
Whitespace == {" "}

\* String.prototype.toUpperCase and the i flag, on one character
ToUpper(c) ==
  IF \E k \in 1..26 : LowerLetters[k] = c
    THEN UpperLetters[CHOOSE k \in 1..26 : LowerLetters[k] = c]
    ELSE c

\* String.prototype.toUpperCase
UpperCase(s) == IF s = <<>> THEN <<>> ELSE [k \in 1..Len(s) |-> ToUpper(s[k])]

\* The vocabulary of the SQL texts, spelled character by character: the
\* keywords as the statements write them, the table and column names of the
\* registry, names outside it, and the punctuation.
S_SELECT == <<"S", "E", "L", "E", "C", "T">>
S_select == <<"s", "e", "l", "e", "c", "t">>
S_Select == <<"S", "e", "l", "e", "c", "t">>
S_DELETE == <<"D", "E", "L", "E", "T", "E">>
S_delete == <<"d", "e", "l", "e", "t", "e">>
S_FROM == <<"F", "R", "O", "M">>
S_from == <<"f", "r", "o", "m">>
S_JOIN == <<"J", "O", "I", "N">>
S_INTO == <<"I", "N", "T", "O">>
S_AS == <<"A", "S">>
S_ON == <<"O", "N">>
S_DROP == <<"D", "R", "O", "P">>
S_Drop == <<"D", "r", "o", "p">>
S_TRUNCATE == <<"T", "R", "U", "N", "C", "A", "T", "E">>
S_ALTER == <<"A", "L", "T", "E", "R">>
S_GRANT == <<"G", "R", "A", "N", "T">>
S_REVOKE == <<"R", "E", "V", "O", "K", "E">>
S_TABLE == <<"T", "A", "B", "L", "E">>
S_WHERE == <<"W", "H", "E", "R", "E">>
S_FORM == <<"F", "O", "R", "M">>
S_SELECTE == <<"S", "E", "L", "E", "C", "T", "E">>
S_WHER == <<"W", "H", "E", "R">>
S_COUNT == <<"C", "O", "U", "N", "T">>
S_SUM == <<"S", "U", "M">>
S_sum == <<"s", "u", "m">>
S_AVG == <<"A", "V", "G">>
S_MIN == <<"M", "I", "N">>
S_MAX == <<"M", "A", "X">>
S_DISTINCT == <<"D", "I", "S", "T", "I", "N", "C", "T">>
S_public == <<"p", "u", "b", "l", "i", "c">>
S_users == <<"u", "s", "e", "r", "s">>
S_id == <<"i", "d">>
S_email == <<"e", "m", "a", "i", "l">>
S_name == <<"n", "a", "m", "e">>
S_phone == <<"p", "h", "o", "n", "e">>
S_country == <<"c", "o", "u", "n", "t", "r", "y">>
S_role == <<"r", "o", "l", "e">>
S_created_at == <<"c", "r", "e", "a", "t", "e", "d", "_", "a", "t">>
S_updated_at == <<"u", "p", "d", "a", "t", "e", "d", "_", "a", "t">>
S_accounts == <<"a", "c", "c", "o", "u", "n", "t", "s">>
S_user_id == <<"u", "s", "e", "r", "_", "i", "d">>
S_account_type == <<"a", "c", "c", "o", "u", "n", "t", "_", "t", "y", "p", "e">>
S_account_name == <<"a", "c", "c", "o", "u", "n", "t", "_", "n", "a", "m", "e">>
S_balance == <<"b", "a", "l", "a", "n", "c", "e">>
S_currency == <<"c", "u", "r", "r", "e", "n", "c", "y">>
S_account_number == <<"a", "c", "c", "o", "u", "n", "t", "_", "n", "u", "m", "b", "e", "r">>
S_institution_name == <<"i", "n", "s", "t", "i", "t", "u", "t", "i", "o", "n", "_", "n", "a", "m",
                        "e">>
S_transactions == <<"t", "r", "a", "n", "s", "a", "c", "t", "i", "o", "n", "s">>
S_account_id == <<"a", "c", "c", "o", "u", "n", "t", "_", "i", "d">>
S_security_id == <<"s", "e", "c", "u", "r", "i", "t", "y", "_", "i", "d">>
S_transaction_type == <<"t", "r", "a", "n", "s", "a", "c", "t", "i", "o", "n", "_", "t", "y", "p",
                        "e">>
S_amount == <<"a", "m", "o", "u", "n", "t">>
S_quantity == <<"q", "u", "a", "n", "t", "i", "t", "y">>
S_price_per_unit == <<"p", "r", "i", "c", "e", "_", "p", "e", "r", "_", "u", "n", "i", "t">>
S_transaction_date == <<"t", "r", "a", "n", "s", "a", "c", "t", "i", "o", "n", "_", "d", "a", "t",
                        "e">>
S_description == <<"d", "e", "s", "c", "r", "i", "p", "t", "i", "o", "n">>
S_category == <<"c", "a", "t", "e", "g", "o", "r", "y">>
S_merchant == <<"m", "e", "r", "c", "h", "a", "n", "t">>
S_status == <<"s", "t", "a", "t", "u", "s">>
S_securities == <<"s", "e", "c", "u", "r", "i", "t", "i", "e", "s">>
S_ticker == <<"t", "i", "c", "k", "e", "r">>
S_security_type == <<"s", "e", "c", "u", "r", "i", "t", "y", "_", "t", "y", "p", "e">>
S_sector == <<"s", "e", "c", "t", "o", "r">>
S_industry == <<"i", "n", "d", "u", "s", "t", "r", "y">>
S_market_cap == <<"m", "a", "r", "k", "e", "t", "_", "c", "a", "p">>
S_portfolio_holdings == <<"p", "o", "r", "t", "f", "o", "l", "i", "o", "_", "h", "o", "l", "d",
                          "i", "n", "g", "s">>
S_average_cost == <<"a", "v", "e", "r", "a", "g", "e", "_", "c", "o", "s", "t">>
S_current_price == <<"c", "u", "r", "r", "e", "n", "t", "_", "p", "r", "i", "c", "e">>
S_market_value == <<"m", "a", "r", "k", "e", "t", "_", "v", "a", "l", "u", "e">>
S_acquisition_date == <<"a", "c", "q", "u", "i", "s", "i", "t", "i", "o", "n", "_", "d", "a", "t",
                        "e">>
S_price_history == <<"p", "r", "i", "c", "e", "_", "h", "i", "s", "t", "o", "r", "y">>
S_history_date == <<"h", "i", "s", "t", "o", "r", "y", "_", "d", "a", "t", "e">>
S_open_price == <<"o", "p", "e", "n", "_", "p", "r", "i", "c", "e">>
S_close_price == <<"c", "l", "o", "s", "e", "_", "p", "r", "i", "c", "e">>
S_high_price == <<"h", "i", "g", "h", "_", "p", "r", "i", "c", "e">>
S_low_price == <<"l", "o", "w", "_", "p", "r", "i", "c", "e">>
S_volume == <<"v", "o", "l", "u", "m", "e">>
S_dividends == <<"d", "i", "v", "i", "d", "e", "n", "d", "s">>
S_ex_date == <<"e", "x", "_", "d", "a", "t", "e">>
S_record_date == <<"r", "e", "c", "o", "r", "d", "_", "d", "a", "t", "e">>
S_payment_date == <<"p", "a", "y", "m", "e", "n", "t", "_", "d", "a", "t", "e">>
S_amount_per_share == <<"a", "m", "o", "u", "n", "t", "_", "p", "e", "r", "_", "s", "h", "a", "r",
                        "e">>
S_total_amount == <<"t", "o", "t", "a", "l", "_", "a", "m", "o", "u", "n", "t">>
S_budgets == <<"b", "u", "d", "g", "e", "t", "s">>
S_limit_amount == <<"l", "i", "m", "i", "t", "_", "a", "m", "o", "u", "n", "t">>
S_spent_amount == <<"s", "p", "e", "n", "t", "_", "a", "m", "o", "u", "n", "t">>
S_budget_month == <<"b", "u", "d", "g", "e", "t", "_", "m", "o", "n", "t", "h">>
S_budget_year == <<"b", "u", "d", "g", "e", "t", "_", "y", "e", "a", "r">>
S_expense_categories == <<"e", "x", "p", "e", "n", "s", "e", "_", "c", "a", "t", "e", "g", "o",
                          "r", "i", "e", "s">>
S_category_name == <<"c", "a", "t", "e", "g", "o", "r", "y", "_", "n", "a", "m", "e">>
S_color == <<"c", "o", "l", "o", "r">>
S_icon == <<"i", "c", "o", "n">>
S_financial_goals == <<"f", "i", "n", "a", "n", "c", "i", "a", "l", "_", "g", "o", "a", "l", "s">>
S_goal_name == <<"g", "o", "a", "l", "_", "n", "a", "m", "e">>
S_goal_type == <<"g", "o", "a", "l", "_", "t", "y", "p", "e">>
S_target_amount == <<"t", "a", "r", "g", "e", "t", "_", "a", "m", "o", "u", "n", "t">>
S_current_amount == <<"c", "u", "r", "r", "e", "n", "t", "_", "a", "m", "o", "u", "n", "t">>
S_target_date == <<"t", "a", "r", "g", "e", "t", "_", "d", "a", "t", "e">>
S_priority == <<"p", "r", "i", "o", "r", "i", "t", "y">>
S_schema_registry == <<"s", "c", "h", "e", "m", "a", "_", "r", "e", "g", "i", "s", "t", "r", "y">>
S_table_name == <<"t", "a", "b", "l", "e", "_", "n", "a", "m", "e">>
S_col_defs == <<"c", "o", "l", "_", "d", "e", "f", "s">>
S_rel_defs == <<"r", "e", "l", "_", "d", "e", "f", "s">>
S_sens_fields == <<"s", "e", "n", "s", "_", "f", "i", "e", "l", "d", "s">>
S_is_queryable == <<"i", "s", "_", "q", "u", "e", "r", "y", "a", "b", "l", "e">>
S_ghosts == <<"g", "h", "o", "s", "t", "s">>
S_nope == <<"n", "o", "p", "e">>
S_a == <<"a">>
S_dropped == <<"d", "r", "o", "p", "p", "e", "d">>
S_constructor == <<"c", "o", "n", "s", "t", "r", "u", "c", "t", "o", "r">>
S_toString == <<"t", "o", "S", "t", "r", "i", "n", "g">>
S_valueOf == <<"v", "a", "l", "u", "e", "O", "f">>
S_sp == <<" ">>
S_comma == <<",">>
S_lpar == <<"(">>
S_rpar == <<")">>
S_dot == <<".">>
S_star == <<"*">>
S_semi == <<";">>

----------------------------------------------------------------------------
(* Regular-expression primitives                                           *)

IsWAt(s, i) == i >= 1 /\ i <= Len(s) /\ s[i] \in WordChars

\* a literal at position i, case-sensitive
MatchCS(s, i, lit) ==
  /\ i >= 1
  /\ i + Len(lit) - 1 <= Len(s)
  /\ \A k \in 1..Len(lit) : s[i + k - 1] = lit[k]

\* a literal at position i under the i flag
MatchCI(s, i, lit) ==
  /\ i >= 1
  /\ i + Len(lit) - 1 <= Len(s)
  /\ \A k \in 1..Len(lit) : ToUpper(s[i + k - 1]) = ToUpper(lit[k])

\* String.prototype.includes
Includes(s, lit) == \E i \in 1..Len(s) : MatchCS(s, i, lit)

\* greedy \s* from position i: the first position that is not whitespace
RECURSIVE WsEnd(_, _)
WsEnd(s, i) ==
  IF i <= Len(s) /\ s[i] \in Whitespace THEN WsEnd(s, i + 1) ELSE i

\* greedy \w* from position i: the first position that is not a word character
RECURSIVE WordEnd(_, _)
WordEnd(s, i) == IF IsWAt(s, i) THEN WordEnd(s, i + 1) ELSE i

Slice(s, i, j) == IF i <= j THEN SubSeq(s, i, j) ELSE <<>>

\* String.prototype.trim
Trim(s) ==
  LET nonWs == {i \in 1..Len(s) : s[i] \notin Whitespace}
  IN  IF nonWs = {} THEN <<>>
      ELSE LET lo == CHOOSE i \in nonWs : \A j \in nonWs : i <= j
               hi == CHOOSE i \in nonWs : \A j \in nonWs : i >= j
           IN  SubSeq(s, lo, hi)

Least(S) == CHOOSE i \in S : \A j \in S : i <= j

----------------------------------------------------------------------------
(* Schema Registry (schema-registry.ts)                                    *)

\* a column of the registry: ColumnInfo
Col(type, aggregatable) == [type |-> type, aggregatable |-> aggregatable]

\* mockData of loadSchemaRegistry, keyed by table_name as cachedSchema is: the
\* description, the column names in declaration order, each column's type
\* and aggregatable tag ("" is an absent tag), and the relationships
mockData ==
  (S_users :>
     [description |-> <<"U", "s", "e", "r", " ", "p", "r", "o", "f", "i", "l", "e", "s", " ", "a",
                        "n", "d", " ", "a", "u", "t", "h", "e", "n", "t", "i", "c", "a", "t", "i",
                        "o", "n", " ", "d", "a", "t", "a">>,
      names |-> <<S_id, S_email, S_name, S_phone, S_country, S_role,
                  S_created_at, S_updated_at>>,
      columns |->
        (S_id :> Col("uuid", ""))
        @@ (S_email :> Col("text", "false"))
        @@ (S_name :> Col("text", "false"))
        @@ (S_phone :> Col("text", "false"))
        @@ (S_country :> Col("text", "false"))
        @@ (S_role :> Col("varchar", "false"))
        @@ (S_created_at :> Col("timestamp", ""))
        @@ (S_updated_at :> Col("timestamp", "")),
      relationships |-> <<
        [table |-> S_accounts, join_key |-> <<"i", "d", ":", "u", "s", "e", "r", "_", "i", "d">>],
        [table |-> S_budgets, join_key |-> <<"i", "d", ":", "u", "s", "e", "r", "_", "i", "d">>],
        [table |-> S_financial_goals, join_key |-> <<"i", "d", ":", "u", "s", "e", "r", "_", "i", "d">>],
        [table |-> S_expense_categories, join_key |-> <<"i", "d", ":", "u", "s", "e", "r", "_", "i", "d">>]>>])
  @@ (S_accounts :>
     [description |-> <<"B", "a", "n", "k", " ", "a", "n", "d", " ", "i", "n", "v", "e", "s", "t",
                        "m", "e", "n", "t", " ", "a", "c", "c", "o", "u", "n", "t", "s">>,
      names |-> <<S_id, S_user_id, S_account_type, S_account_name,
                  S_balance, S_currency, S_account_number, S_institution_name,
                  S_created_at, S_updated_at>>,
      columns |->
        (S_id :> Col("uuid", ""))
        @@ (S_user_id :> Col("uuid", ""))
        @@ (S_account_type :> Col("text", "false"))
        @@ (S_account_name :> Col("text", "false"))
        @@ (S_balance :> Col("numeric", "SUM,AVG,MAX,MIN"))
        @@ (S_currency :> Col("text", "false"))
        @@ (S_account_number :> Col("text", "false"))
        @@ (S_institution_name :> Col("text", "false"))
        @@ (S_created_at :> Col("timestamp", ""))
        @@ (S_updated_at :> Col("timestamp", "")),
      relationships |-> <<
        [table |-> S_users, join_key |-> <<"u", "s", "e", "r", "_", "i", "d", ":", "i", "d">>],
        [table |-> S_transactions, join_key |-> <<"i", "d", ":", "a", "c", "c", "o", "u", "n", "t", "_", "i", "d">>],
        [table |-> S_portfolio_holdings, join_key |-> <<"i", "d", ":", "a", "c", "c", "o", "u", "n", "t", "_", "i", "d">>],
        [table |-> S_dividends, join_key |-> <<"i", "d", ":", "a", "c", "c", "o", "u", "n", "t", "_", "i", "d">>]>>])
  @@ (S_transactions :>
     [description |-> <<"F", "i", "n", "a", "n", "c", "i", "a", "l", " ", "t", "r", "a", "n", "s",
                        "a", "c", "t", "i", "o", "n", "s", " ", "i", "n", "c", "l", "u", "d", "i",
                        "n", "g", " ", "p", "u", "r", "c", "h", "a", "s", "e", "s", ",", " ", "s",
                        "a", "l", "e", "s", ",", " ", "a", "n", "d", " ", "t", "r", "a", "n", "s",
                        "f", "e", "r", "s">>,
      names |-> <<S_id, S_account_id, S_security_id, S_transaction_type,
                  S_amount, S_quantity, S_price_per_unit, S_transaction_date,
                  S_description, S_category, S_merchant, S_status,
                  S_created_at>>,
      columns |->
        (S_id :> Col("uuid", ""))
        @@ (S_account_id :> Col("uuid", ""))
        @@ (S_security_id :> Col("uuid", ""))
        @@ (S_transaction_type :> Col("text", "false"))
        @@ (S_amount :> Col("numeric", "SUM,AVG,MAX,MIN"))
        @@ (S_quantity :> Col("numeric", "SUM"))
        @@ (S_price_per_unit :> Col("numeric", "AVG"))
        @@ (S_transaction_date :> Col("date", ""))
        @@ (S_description :> Col("text", "false"))
        @@ (S_category :> Col("text", "false"))
        @@ (S_merchant :> Col("text", "false"))
        @@ (S_status :> Col("text", "false"))
        @@ (S_created_at :> Col("timestamp", "")),
      relationships |-> <<
        [table |-> S_accounts, join_key |-> <<"a", "c", "c", "o", "u", "n", "t", "_", "i", "d", ":", "i", "d">>],
        [table |-> S_securities, join_key |-> <<"s", "e", "c", "u", "r", "i", "t", "y", "_", "i", "d", ":", "i", "d">>]>>])
  @@ (S_securities :>
     [description |-> <<"S", "t", "o", "c", "k", "s", ",", " ", "b", "o", "n", "d", "s", ",", " ",
                        "m", "u", "t", "u", "a", "l", " ", "f", "u", "n", "d", "s", ",", " ", "a",
                        "n", "d", " ", "o", "t", "h", "e", "r", " ", "i", "n", "v", "e", "s", "t",
                        "m", "e", "n", "t", " ", "s", "e", "c", "u", "r", "i", "t", "i", "e", "s">>,
      names |-> <<S_id, S_ticker, S_name, S_security_type, S_sector,
                  S_industry, S_market_cap, S_description, S_created_at>>,
      columns |->
        (S_id :> Col("uuid", ""))
        @@ (S_ticker :> Col("text", "false"))
        @@ (S_name :> Col("text", "false"))
        @@ (S_security_type :> Col("text", "false"))
        @@ (S_sector :> Col("text", "false"))
        @@ (S_industry :> Col("text", "false"))
        @@ (S_market_cap :> Col("numeric", "SUM,AVG,MAX,MIN"))
        @@ (S_description :> Col("text", "false"))
        @@ (S_created_at :> Col("timestamp", "")),
      relationships |-> <<
        [table |-> S_portfolio_holdings, join_key |-> <<"i", "d", ":", "s", "e", "c", "u", "r", "i", "t", "y", "_", "i", "d">>],
        [table |-> S_transactions, join_key |-> <<"i", "d", ":", "s", "e", "c", "u", "r", "i", "t", "y", "_", "i", "d">>],
        [table |-> S_price_history, join_key |-> <<"i", "d", ":", "s", "e", "c", "u", "r", "i", "t", "y", "_", "i", "d">>],
        [table |-> S_dividends, join_key |-> <<"i", "d", ":", "s", "e", "c", "u", "r", "i", "t", "y", "_", "i", "d">>]>>])
  @@ (S_portfolio_holdings :>
     [description |-> <<"C", "u", "r", "r", "e", "n", "t", " ", "p", "o", "r", "t", "f", "o", "l",
                        "i", "o", " ", "h", "o", "l", "d", "i", "n", "g", "s", " ", "o", "f", " ",
                        "u", "s", "e", "r", "s">>,
      names |-> <<S_id, S_account_id, S_security_id, S_quantity,
                  S_average_cost, S_current_price, S_market_value,
                  S_acquisition_date, S_created_at, S_updated_at>>,
      columns |->
        (S_id :> Col("uuid", ""))
        @@ (S_account_id :> Col("uuid", ""))
        @@ (S_security_id :> Col("uuid", ""))
        @@ (S_quantity :> Col("numeric", "SUM"))
        @@ (S_average_cost :> Col("numeric", "AVG"))
        @@ (S_current_price :> Col("numeric", "AVG"))
        @@ (S_market_value :> Col("numeric", "SUM,AVG"))
        @@ (S_acquisition_date :> Col("date", ""))
        @@ (S_created_at :> Col("timestamp", ""))
        @@ (S_updated_at :> Col("timestamp", "")),
      relationships |-> <<
        [table |-> S_accounts, join_key |-> <<"a", "c", "c", "o", "u", "n", "t", "_", "i", "d", ":", "i", "d">>],
        [table |-> S_securities, join_key |-> <<"s", "e", "c", "u", "r", "i", "t", "y", "_", "i", "d", ":", "i", "d">>]>>])
  @@ (S_price_history :>
     [description |-> <<"H", "i", "s", "t", "o", "r", "i", "c", "a", "l", " ", "s", "t", "o", "c",
                        "k", " ", "p", "r", "i", "c", "e", " ", "d", "a", "t", "a">>,
      names |-> <<S_id, S_security_id, S_history_date, S_open_price,
                  S_close_price, S_high_price, S_low_price, S_volume,
                  S_created_at>>,
      columns |->
        (S_id :> Col("uuid", ""))
        @@ (S_security_id :> Col("uuid", ""))
        @@ (S_history_date :> Col("date", ""))
        @@ (S_open_price :> Col("numeric", "AVG"))
        @@ (S_close_price :> Col("numeric", "AVG"))
        @@ (S_high_price :> Col("numeric", "MAX"))
        @@ (S_low_price :> Col("numeric", "MIN"))
        @@ (S_volume :> Col("bigint", "SUM,AVG"))
        @@ (S_created_at :> Col("timestamp", "")),
      relationships |-> <<
        [table |-> S_securities, join_key |-> <<"s", "e", "c", "u", "r", "i", "t", "y", "_", "i", "d", ":", "i", "d">>]>>])
  @@ (S_dividends :>
     [description |-> <<"D", "i", "v", "i", "d", "e", "n", "d", " ", "p", "a", "y", "m", "e", "n",
                        "t", "s", " ", "f", "r", "o", "m", " ", "s", "e", "c", "u", "r", "i", "t",
                        "i", "e", "s">>,
      names |-> <<S_id, S_security_id, S_account_id, S_ex_date,
                  S_record_date, S_payment_date, S_amount_per_share,
                  S_total_amount, S_created_at>>,
      columns |->
        (S_id :> Col("uuid", ""))
        @@ (S_security_id :> Col("uuid", ""))
        @@ (S_account_id :> Col("uuid", ""))
        @@ (S_ex_date :> Col("date", ""))
        @@ (S_record_date :> Col("date", ""))
        @@ (S_payment_date :> Col("date", ""))
        @@ (S_amount_per_share :> Col("numeric", "AVG"))
        @@ (S_total_amount :> Col("numeric", "SUM"))
        @@ (S_created_at :> Col("timestamp", "")),
      relationships |-> <<
        [table |-> S_securities, join_key |-> <<"s", "e", "c", "u", "r", "i", "t", "y", "_", "i", "d", ":", "i", "d">>],
        [table |-> S_accounts, join_key |-> <<"a", "c", "c", "o", "u", "n", "t", "_", "i", "d", ":", "i", "d">>]>>])
  @@ (S_budgets :>
     [description |-> <<"U", "s", "e", "r", " ", "b", "u", "d", "g", "e", "t", "s", " ", "f", "o",
                        "r", " ", "e", "x", "p", "e", "n", "s", "e", " ", "c", "a", "t", "e", "g",
                        "o", "r", "i", "e", "s">>,
      names |-> <<S_id, S_user_id, S_category, S_limit_amount,
                  S_spent_amount, S_budget_month, S_budget_year, S_created_at,
                  S_updated_at>>,
      columns |->
        (S_id :> Col("uuid", ""))
        @@ (S_user_id :> Col("uuid", ""))
        @@ (S_category :> Col("text", "false"))
        @@ (S_limit_amount :> Col("numeric", "SUM"))
        @@ (S_spent_amount :> Col("numeric", "SUM"))
        @@ (S_budget_month :> Col("integer", "false"))
        @@ (S_budget_year :> Col("integer", "false"))
        @@ (S_created_at :> Col("timestamp", ""))
        @@ (S_updated_at :> Col("timestamp", "")),
      relationships |-> <<
        [table |-> S_users, join_key |-> <<"u", "s", "e", "r", "_", "i", "d", ":", "i", "d">>]>>])
  @@ (S_expense_categories :>
     [description |-> <<"C", "u", "s", "t", "o", "m", " ", "e", "x", "p", "e", "n", "s", "e", " ",
                        "c", "a", "t", "e", "g", "o", "r", "i", "e", "s", " ", "f", "o", "r", " ",
                        "u", "s", "e", "r", "s">>,
      names |-> <<S_id, S_user_id, S_category_name, S_color, S_icon,
                  S_description, S_created_at>>,
      columns |->
        (S_id :> Col("uuid", ""))
        @@ (S_user_id :> Col("uuid", ""))
        @@ (S_category_name :> Col("text", "false"))
        @@ (S_color :> Col("text", "false"))
        @@ (S_icon :> Col("text", "false"))
        @@ (S_description :> Col("text", "false"))
        @@ (S_created_at :> Col("timestamp", "")),
      relationships |-> <<
        [table |-> S_users, join_key |-> <<"u", "s", "e", "r", "_", "i", "d", ":", "i", "d">>]>>])
  @@ (S_financial_goals :>
     [description |-> <<"F", "i", "n", "a", "n", "c", "i", "a", "l", " ", "g", "o", "a", "l", "s",
                        " ", "a", "n", "d", " ", "t", "a", "r", "g", "e", "t", "s", " ", "f", "o",
                        "r", " ", "u", "s", "e", "r", "s">>,
      names |-> <<S_id, S_user_id, S_goal_name, S_goal_type,
                  S_target_amount, S_current_amount, S_target_date, S_priority,
                  S_status, S_created_at, S_updated_at>>,
      columns |->
        (S_id :> Col("uuid", ""))
        @@ (S_user_id :> Col("uuid", ""))
        @@ (S_goal_name :> Col("text", "false"))
        @@ (S_goal_type :> Col("text", "false"))
        @@ (S_target_amount :> Col("numeric", "SUM"))
        @@ (S_current_amount :> Col("numeric", "SUM"))
        @@ (S_target_date :> Col("date", ""))
        @@ (S_priority :> Col("text", "false"))
        @@ (S_status :> Col("text", "false"))
        @@ (S_created_at :> Col("timestamp", ""))
        @@ (S_updated_at :> Col("timestamp", "")),
      relationships |-> <<
        [table |-> S_users, join_key |-> <<"u", "s", "e", "r", "_", "i", "d", ":", "i", "d">>]>>])
  @@ (S_schema_registry :>
     [description |-> <<"R", "e", "g", "i", "s", "t", "r", "y", " ", "o", "f", " ", "q", "u", "e",
                        "r", "y", "a", "b", "l", "e", " ", "s", "c", "h", "e", "m", "a", "s", " ",
                        "a", "n", "d", " ", "m", "e", "t", "a", "d", "a", "t", "a">>,
      names |-> <<S_id, S_table_name, S_description, S_col_defs,
                  S_rel_defs, S_sens_fields, S_is_queryable, S_created_at,
                  S_updated_at>>,
      columns |->
        (S_id :> Col("uuid", ""))
        @@ (S_table_name :> Col("text", "false"))
        @@ (S_description :> Col("text", "false"))
        @@ (S_col_defs :> Col("jsonb", "false"))
        @@ (S_rel_defs :> Col("jsonb", "false"))
        @@ (S_sens_fields :> Col("array", "false"))
        @@ (S_is_queryable :> Col("boolean", "false"))
        @@ (S_created_at :> Col("timestamp", ""))
        @@ (S_updated_at :> Col("timestamp", "")),
      relationships |-> <<>>])

\* Object.keys(schema), in insertion order
SchemaKeys ==
  <<S_users, S_accounts, S_transactions, S_securities,
    S_portfolio_holdings, S_price_history, S_dividends, S_budgets,
    S_expense_categories, S_financial_goals, S_schema_registry>>

\* the tables loadSchemaRegistry returns: its mockData under their table_name
VARIABLE registry

\* cachedSchema = {} is a plain object: a lookup schema[name] also finds the
\* properties it inherits from Object.prototype, which are truthy and have no
\* columns
ObjectPrototypeKeys == {S_constructor, S_toString, S_valueOf}

\* the truthiness of schema[name]
SchemaHas(name) == name \in DOMAIN registry \/ name \in ObjectPrototypeKeys

\* schema[name] is a TableSchema (own property) and not an inherited one
IsTableSchema(name) == name \in DOMAIN registry

----------------------------------------------------------------------------
(* SQL Validator (query-planner.ts)                                        *)

\* the rest of a function body over the value a step has produced
Then(value, Rest(_)) == Rest(value)

\* One message of the errors, warnings or suggestions list: the template
\* that produced it and the texts interpolated into it.
Msg(kind, fn, table, column, available) ==
  [kind |-> kind, fn |-> fn, table |-> table, column |-> column,
   available |-> available]

dangerousKeywords ==
  <<S_DELETE, S_DROP, S_TRUNCATE, S_ALTER, S_GRANT, S_REVOKE>>

\* new RegExp(`\\b${keyword}\\b`, "i").test(sql)
WordTestNoCase(sql, keyword) ==
  \E i \in 1..Len(sql) :
    /\ MatchCI(sql, i, keyword)
    /\ ~IsWAt(sql, i - 1)
    /\ ~IsWAt(sql, i + Len(keyword))

\* the same test without the i flag
WordTestCase(sql, keyword) ==
  \E i \in 1..Len(sql) :
    /\ MatchCS(sql, i, keyword)
    /\ ~IsWAt(sql, i - 1)
    /\ ~IsWAt(sql, i + Len(keyword))

KeywordTest(sql, keyword) == WordTestNoCase(sql, keyword)

RECURSIVE SafetyFrom(_, _)
SafetyFrom(sql, k) ==
  IF k > Len(dangerousKeywords) THEN <<>>
  ELSE (IF KeywordTest(sql, dangerousKeywords[k])
          THEN <<Msg("dangerous", <<>>, <<>>, dangerousKeywords[k], <<>>)>>
          ELSE <<>>)
       \o SafetyFrom(sql, k + 1)

\* the errors validateSafety pushes, in order
validateSafety(sql) == SafetyFrom(sql, 1)

\* one attempt of /KW\s+(\w+)\s*(?:AS\s+(\w+))?/i at position i (withAlias), or
\* of /KW\s+(\w+)/i (without): whether it matches, its groups and lastIndex
TableRefAt(s, i, kw, withAlias) ==
  Then(WsEnd(s, i + Len(kw)), LAMBDA b :
  Then(WordEnd(s, b), LAMBDA c :
  Then(WsEnd(s, c), LAMBDA d :
  Then(WsEnd(s, d + Len(S_AS)), LAMBDA f :
  Then(WordEnd(s, f), LAMBDA g :
  Then(withAlias /\ MatchCI(s, d, S_AS) /\ f > d + Len(S_AS) /\ g > f,
       LAMBDA hasAlias :
         [ok    |-> MatchCI(s, i, kw) /\ b > i + Len(kw) /\ c > b,
          name  |-> Slice(s, b, c - 1),
          alias |-> IF hasAlias THEN Slice(s, f, g - 1) ELSE <<>>,
          next  |-> IF hasAlias THEN g ELSE IF withAlias THEN d ELSE c]))))))

\* while ((match = regex.exec(sql)) !== null) tables.push(...), from lastIndex p
RECURSIVE ExecTableRegex(_, _, _, _)
ExecTableRegex(s, p, kw, withAlias) ==
  Then({i \in p..Len(s) : TableRefAt(s, i, kw, withAlias).ok}, LAMBDA hits :
    IF hits = {} THEN <<>>
    ELSE Then(TableRefAt(s, Least(hits), kw, withAlias), LAMBDA m :
           <<[name |-> m.name, alias |-> m.alias]>>
             \o ExecTableRegex(s, m.next, kw, withAlias)))

extractTableReferences(sql) ==
  ExecTableRegex(sql, 1, S_FROM, TRUE)
    \o ExecTableRegex(sql, 1, S_JOIN, TRUE)
    \o ExecTableRegex(sql, 1, S_INTO, FALSE)

\* (?:\s+FROM|\s*$) at position j
SelectTerminatorAt(s, j) ==
  LET k == WsEnd(s, j)
  IN  (k > j /\ MatchCI(s, k, S_FROM)) \/ k = Len(s) + 1

\* /SELECT\s+(.+?)(?:\s+FROM|\s*$)/i at position i: group 1 as <<first, last>>
SelectPartAt(s, i) ==
  Then(WsEnd(s, i + Len(S_SELECT)), LAMBDA b :
  Then(IF b <= Len(s) THEN b ELSE Len(s), LAMBDA first :
    [ok    |-> MatchCI(s, i, S_SELECT) /\ b > i + Len(S_SELECT)
                 /\ (b <= Len(s) \/ b - (i + Len(S_SELECT)) >= 2),
     first |-> first,
     last  |-> Least({e \in first..Len(s) : SelectTerminatorAt(s, e + 1)})]))

\* selectPart.split(/,(?![^()]*\))/): a comma separates unless a ")" follows
\* it with no parenthesis in between
IsSeparator(s, c) ==
  /\ s[c] = ","
  /\ ~ \E j \in (c + 1)..Len(s) :
         /\ s[j] = ")"
         /\ \A k \in (c + 1)..(j - 1) : s[k] \notin {"(", ")"}

RECURSIVE SplitFrom(_, _)
SplitFrom(s, p) ==
  Then({c \in p..Len(s) : IsSeparator(s, c)}, LAMBDA seps :
    IF seps = {} THEN <<Slice(s, p, Len(s))>>
    ELSE <<Slice(s, p, Least(seps) - 1)>> \o SplitFrom(s, Least(seps) + 1))

aggregationFunctions == {S_COUNT, S_SUM, S_AVG, S_MIN, S_MAX}

\* (\w+|\*)\s*\) at position p: the column's end, or 0
AggArgEnd(t, p) ==
  Then(WordEnd(t, p), LAMBDA w :
  Then(IF w > p THEN w ELSE IF p <= Len(t) /\ t[p] = "*" THEN p + 1 ELSE 0,
       LAMBDA colEnd :
  Then(WsEnd(t, colEnd), LAMBDA r :
    IF colEnd > 0 /\ r <= Len(t) /\ t[r] = ")" THEN colEnd ELSE 0)))

\* /(COUNT|SUM|AVG|MIN|MAX)\s*\(\s*(?:(\w+)\.)?(\w+|\*)\s*\)/i at position i
AggAt(t, i) ==
  Then({f \in aggregationFunctions : MatchCI(t, i, f)}, LAMBDA fns :
    IF fns = {} THEN [ok |-> FALSE]
    ELSE
  Then(CHOOSE f \in fns : TRUE, LAMBDA fn :
  Then(WsEnd(t, i + Len(fn)), LAMBDA b :
    IF b > Len(t) THEN [ok |-> FALSE]
    ELSE IF t[b] # "(" THEN [ok |-> FALSE]
    ELSE
  Then(WsEnd(t, b + 1), LAMBDA c :
  Then(WordEnd(t, c), LAMBDA q :
  Then(IF q > c /\ q <= Len(t) /\ t[q] = "." THEN AggArgEnd(t, q + 1) ELSE 0,
       LAMBDA qualifiedEnd :
  Then(AggArgEnd(t, c), LAMBDA plainEnd :
    IF qualifiedEnd > 0
      THEN [ok |-> TRUE, table |-> Slice(t, c, q - 1),
            column |-> Slice(t, q + 1, qualifiedEnd - 1),
            aggregationFunction |-> UpperCase(fn)]
    ELSE IF plainEnd > 0
      THEN [ok |-> TRUE, table |-> <<>>,
            column |-> Slice(t, c, plainEnd - 1),
            aggregationFunction |-> UpperCase(fn)]
    ELSE [ok |-> FALSE])))))))

\* /(?:(\w+)\.)?(\w+)/ on a part with no aggregation call: its first word,
\* or table.column when a dot and a word follow it
ColAt(t) ==
  Then({i \in 1..Len(t) : IsWAt(t, i)}, LAMBDA starts :
    IF starts = {} THEN <<>>
    ELSE
  Then(Least(starts), LAMBDA i :
  Then(WordEnd(t, i), LAMBDA q :
  Then(WordEnd(t, q + 1), LAMBDA q2 :
    IF q <= Len(t) /\ t[q] = "." /\ q2 > q + 1
      THEN <<[table |-> Slice(t, i, q - 1), column |-> Slice(t, q + 1, q2 - 1),
              aggregationFunction |-> <<>>]>>
    ELSE <<[table |-> <<>>, column |-> Slice(t, i, q - 1),
            aggregationFunction |-> <<>>]>>))))

\* the ColumnReference of one part of the select-list, if any
PartReference(part) ==
  Then(Trim(part), LAMBDA t :
  Then({i \in 1..Len(t) : AggAt(t, i).ok}, LAMBDA hits :
    IF hits # {}
      THEN Then(AggAt(t, Least(hits)), LAMBDA m :
             <<[table |-> m.table, column |-> m.column,
                aggregationFunction |-> m.aggregationFunction]>>)
      ELSE ColAt(t)))

RECURSIVE PartReferences(_)
PartReferences(parts) ==
  IF parts = <<>> THEN <<>>
  ELSE PartReference(Head(parts)) \o PartReferences(Tail(parts))

extractColumnReferences(sql) ==
  Then({i \in 1..Len(sql) : SelectPartAt(sql, i).ok}, LAMBDA hits :
    IF hits = {} THEN <<>>
    ELSE Then(SelectPartAt(sql, Least(hits)), LAMBDA m :
           PartReferences(SplitFrom(Slice(sql, m.first, m.last), 1))))

\* validateTableExists: the error it pushes, if any
validateTableExists(tableName) ==
  IF ~SchemaHas(tableName)
    THEN <<Msg("table_missing", <<>>, tableName, <<>>, SchemaKeys)>>
    ELSE <<>>

\* the truthiness of tableSchema.columns[columnName]: columns is a plain
\* object too
ColumnHas(tableName, columnName) ==
  \/ columnName \in DOMAIN registry[tableName].columns
  \/ columnName \in ObjectPrototypeKeys

\* validateColumnExists: the error it pushes, and whether it throws the
\* TypeError of reading tableSchema.columns[...] when schema[tableName] is an
\* inherited property without columns
validateColumnExists(tableName, columnName) ==
  IF columnName = S_star THEN [thrown |-> FALSE, errors |-> <<>>]
  ELSE IF ~IsTableSchema(tableName) THEN [thrown |-> TRUE, errors |-> <<>>]
  ELSE IF ~ColumnHas(tableName, columnName)
    THEN [thrown |-> FALSE,
          errors |-> <<Msg("column_missing", <<>>, tableName, columnName,
                           registry[tableName].names)>>]
  ELSE [thrown |-> FALSE, errors |-> <<>>]

validTextAggregations == {S_COUNT, S_DISTINCT}

\* column.type and column.aggregatable; undefined ("") on an inherited property
ColumnInfo(tableName, columnName) ==
  IF columnName \in DOMAIN registry[tableName].columns
    THEN registry[tableName].columns[columnName]
    ELSE Col("", "")

\* validateAggregation: the errors and warnings it pushes
validateAggregation(tableName, columnName, aggregationFunction) ==
  IF columnName = S_star
    THEN [errors |-> IF aggregationFunction # S_COUNT
                       THEN <<Msg("agg_star", aggregationFunction, <<>>, <<>>, <<>>)>>
                       ELSE <<>>,
          warnings |-> <<>>]
  ELSE IF ~ColumnHas(tableName, columnName)
    THEN [errors |-> <<>>, warnings |-> <<>>]
  ELSE
    Then(ColumnInfo(tableName, columnName), LAMBDA column :
        [errors |->
           (IF column.type = "text" /\ aggregationFunction \notin validTextAggregations
              THEN <<Msg("agg_text", aggregationFunction, tableName, columnName, <<>>)>>
              ELSE <<>>)
           \o (IF column.type = "date"
                    /\ aggregationFunction \notin {S_MIN, S_MAX, S_COUNT}
                 THEN <<Msg("agg_date", aggregationFunction, tableName, columnName, <<>>)>>
                 ELSE <<>>)
           \o (IF column.type = "uuid" /\ aggregationFunction # S_COUNT
                    /\ aggregationFunction # S_DISTINCT
                 THEN <<Msg("agg_uuid", aggregationFunction, tableName, columnName, <<>>)>>
                 ELSE <<>>),
         warnings |->
           IF column.aggregatable = "false" /\ aggregationFunction # S_COUNT
                /\ aggregationFunction # S_DISTINCT
             THEN <<Msg("not_aggregatable", <<>>, tableName, columnName, <<>>)>>
             ELSE <<>>])

\* the body of "for (const colRef of columnReferences)" for one colRef
CheckColumn(acc, tableRef, colRef, nTables) ==
  IF acc.thrown THEN acc
  ELSE IF colRef.table = <<>> /\ nTables > 1 THEN acc
  ELSE
    Then(IF colRef.table # <<>> THEN colRef.table ELSE tableRef.name,
         LAMBDA targetTable :
      IF ~SchemaHas(targetTable) THEN acc
      ELSE
    Then(validateColumnExists(targetTable, colRef.column), LAMBDA exists :
      IF exists.thrown
        THEN [acc EXCEPT !.thrown = TRUE, !.reading = colRef.column]
      ELSE
    Then(IF colRef.aggregationFunction # <<>>
           THEN validateAggregation(targetTable, colRef.column,
                                    colRef.aggregationFunction)
           ELSE [errors |-> <<>>, warnings |-> <<>>],
         LAMBDA agg :
           [acc EXCEPT !.errors = acc.errors \o exists.errors \o agg.errors,
                       !.warnings = acc.warnings \o agg.warnings])))

RECURSIVE CheckColumns(_, _, _, _)
CheckColumns(acc, tableRef, colRefs, nTables) ==
  IF colRefs = <<>> THEN acc
  ELSE CheckColumns(CheckColumn(acc, tableRef, Head(colRefs), nTables),
                    tableRef, Tail(colRefs), nTables)

\* the body of "for (const tableRef of tableReferences)" for one tableRef
CheckTable(acc, tableRef, colRefs, nTables) ==
  IF acc.thrown THEN acc
  ELSE IF ~SchemaHas(tableRef.name)
    THEN [acc EXCEPT !.errors = acc.errors \o validateTableExists(tableRef.name)]
  ELSE CheckColumns(acc, tableRef, colRefs, nTables)

RECURSIVE CheckTables(_, _, _, _)
CheckTables(acc, tableRefs, colRefs, nTables) ==
  IF tableRefs = <<>> THEN acc
  ELSE CheckTables(CheckTable(acc, Head(tableRefs), colRefs, nTables),
                   Tail(tableRefs), colRefs, nTables)

\* while ((match = /\b(\w+)\.\w+/g.exec(sql)) !== null), from lastIndex p
RECURSIVE QualifierSuggestions(_, _)
QualifierSuggestions(s, p) ==
  Then({i \in p..Len(s) :
          /\ IsWAt(s, i) /\ ~IsWAt(s, i - 1)
          /\ WordEnd(s, i) <= Len(s) /\ s[WordEnd(s, i)] = "."
          /\ IsWAt(s, WordEnd(s, i) + 1)}, LAMBDA hits :
    IF hits = {} THEN <<>>
    ELSE
  Then(Least(hits), LAMBDA i :
  Then(Slice(s, i, WordEnd(s, i) - 1), LAMBDA possibleSchema :
    (IF possibleSchema # S_public /\ ~SchemaHas(possibleSchema)
       THEN <<Msg("verify_qualifier", <<>>, possibleSchema, <<>>, <<>>)>>
       ELSE <<>>)
    \o QualifierSuggestions(s, WordEnd(s, WordEnd(s, i) + 1)))))

\* /TYPO\b/i.test(sql)
TypoTest(sql, typo) ==
  \E i \in 1..Len(sql) : MatchCI(sql, i, typo) /\ ~IsWAt(sql, i + Len(typo))

\* the suggestions detectHallucinations pushes (it pushes no error)
detectHallucinations(sql) ==
  QualifierSuggestions(sql, 1)
    \o (IF TypoTest(sql, S_FORM)
          THEN <<Msg("typo", <<>>, <<>>, S_FROM, <<>>)>> ELSE <<>>)
    \o (IF TypoTest(sql, S_SELECTE)
          THEN <<Msg("typo", <<>>, <<>>, S_SELECT, <<>>)>> ELSE <<>>)
    \o (IF TypoTest(sql, S_WHER)
          THEN <<Msg("typo", <<>>, <<>>, S_WHERE, <<>>)>> ELSE <<>>)

\* valid: errors.length === 0, but warnings too make the result invalid
ResultValidStrict(errors, warnings, suggestions) ==
  errors = <<>> /\ warnings = <<>>

\* valid: errors.length === 0
ResultValid(errors, warnings, suggestions) == errors = <<>>

\* a catch block that hides the error
CaughtAsValid(reading, warnings) ==
  [valid |-> TRUE, errors |-> <<>>, warnings |-> warnings, suggestions |-> <<>>]

\* the catch block of validateQuery, entered before detectHallucinations ran
Caught(reading, warnings) ==
  [valid |-> FALSE,
   errors |-> <<Msg("validation_error", <<>>, <<>>, reading, <<>>)>>,
   warnings |-> warnings,
   suggestions |-> <<>>]

\* validateQuery: the ValidationResult of one SQL text. A TypeError thrown in
\* the try block is caught: the result then holds the one error made of its
\* message ("Cannot read properties of undefined (reading '<column>')")
validateQuery(sql) ==
  Then(extractTableReferences(sql), LAMBDA tableReferences :
  Then([errors |-> validateSafety(sql)
                     \o (IF tableReferences = <<>>
                           THEN <<Msg("no_tables", <<>>, <<>>, <<>>, <<>>)>>
                           ELSE <<>>),
        warnings |-> <<>>, thrown |-> FALSE, reading |-> <<>>], LAMBDA start :
  Then(CheckTables(start, tableReferences, extractColumnReferences(sql),
                   Len(tableReferences)), LAMBDA checked :
    IF checked.thrown THEN Caught(checked.reading, checked.warnings)
    ELSE
  Then(detectHallucinations(sql), LAMBDA suggestions :
  Then(checked.errors
         \o (IF ~Includes(sql, S_SELECT) /\ ~Includes(sql, S_select)
               THEN <<Msg("no_select", <<>>, <<>>, <<>>, <<>>)>>
               ELSE <<>>), LAMBDA errors :
    [valid |-> ResultValid(errors, checked.warnings, suggestions),
     errors |-> errors,
     warnings |-> checked.warnings,
     suggestions |-> suggestions])))))

----------------------------------------------------------------------------
(* Generated SQL statements: the text a generator hands to validateQuery   *)

Item(fn, qual, col) == [fn |-> fn, qual |-> qual, col |-> col]

FromClause(kw, table, alias) == [kw |-> kw, table |-> table, alias |-> alias]

NoFrom == FromClause(<<>>, <<>>, <<>>)

Statement(verb, items, from, tail) ==
  [verb |-> verb, items |-> items, from |-> from, tail |-> tail]

RenderItem(item) ==
  LET ref == (IF item.qual # <<>> THEN item.qual \o S_dot ELSE <<>>) \o item.col
  IN  IF item.fn # <<>> THEN item.fn \o S_lpar \o ref \o S_rpar ELSE ref

RECURSIVE RenderItems(_)
RenderItems(items) ==
  IF items = <<>> THEN <<>>
  ELSE IF Len(items) = 1 THEN RenderItem(items[1])
  ELSE RenderItem(items[1]) \o S_comma \o S_sp \o RenderItems(Tail(items))

\* the SQL text of a statement
Render(stmt) ==
  stmt.verb
    \o (IF stmt.items # <<>> THEN S_sp \o RenderItems(stmt.items) ELSE <<>>)
    \o (IF stmt.from # NoFrom
          THEN S_sp \o stmt.from.kw \o S_sp \o stmt.from.table
                 \o (IF stmt.from.alias # <<>>
                       THEN S_sp \o S_AS \o S_sp \o stmt.from.alias
                       ELSE <<>>)
          ELSE <<>>)
    \o (IF stmt.tail # <<>> THEN S_sp \o stmt.tail ELSE <<>>)

TailJoin == S_JOIN \o S_sp \o S_accounts
TailDrop == S_semi \o S_sp \o S_DROP \o S_sp \o S_TABLE
              \o S_sp \o S_accounts
TailDropMixed == S_semi \o S_sp \o S_Drop \o S_sp \o S_TABLE
                   \o S_sp \o S_accounts
TailWhere == S_WHERE \o S_sp \o S_dropped

GenTables ==
  {S_accounts, S_securities, S_transactions, S_budgets,
   S_ghosts, S_constructor}

GenColumns ==
  {S_star, S_id, S_ticker, S_balance, S_transaction_date,
   S_budget_month, S_nope}

GenFunctions == {<<>>, S_COUNT, S_SUM, S_sum, S_MIN}

\* SELECT statements with one select-list item over every table, with and
\* without an alias, alone or joined with accounts
ColumnStatements ==
  {Statement(S_SELECT, <<Item(fn, qual, col)>>, FromClause(S_FROM, t, alias), tail) :
     fn \in GenFunctions, qual \in {<<>>, S_a}, col \in GenColumns,
     t \in GenTables, alias \in {<<>>, S_a}, tail \in {<<>>, TailJoin}}

GenFromClauses ==
  {NoFrom, FromClause(S_FROM, S_securities, <<>>),
   FromClause(S_from, S_securities, <<>>),
   FromClause(S_FROM, S_constructor, <<>>),
   FromClause(S_FORM, S_securities, <<>>)}

GenTails == {<<>>, TailDrop, TailDropMixed, TailWhere}

\* SELECT statements in every spelling of the verb, with and without a FROM
\* clause and a dangerous tail
KeywordStatements ==
  {Statement(verb, items, from, tail) :
     verb \in {S_SELECT, S_select, S_Select},
     items \in {<<Item(<<>>, <<>>, S_ticker)>>,
                <<Item(S_COUNT, <<>>, S_star)>>,
                <<Item(<<>>, <<>>, S_ticker), Item(<<>>, <<>>, S_nope)>>,
                <<Item(<<>>, S_securities, S_nope)>>},
     from \in GenFromClauses,
     tail \in GenTails}

\* DELETE statements
DeleteStatements ==
  {Statement(verb, <<>>, from, tail) :
     verb \in {S_DELETE, S_delete},
     from \in GenFromClauses \ {NoFrom},
     tail \in GenTails}

Statements == ColumnStatements \cup KeywordStatements \cup DeleteStatements

----------------------------------------------------------------------------
(* Texts of the semantic retriever                                         *)

\* The literal pieces of the templates of buildContextText; "->" stands for
\* the one character U+2192 and "BACKTICK" for the one character U+0060
Text_header == <<"#", "#", " ", "R", "e", "l", "e", "v", "a", "n", "t", " ", "S", "Q", "L", " ",
                 "P", "a", "t", "t", "e", "r", "n", "s", "\n", "\n">>
Text_examples == <<"#", "#", "#", " ", "E", "x", "a", "m", "p", "l", "e", "s", " ", "o", "f", " ",
                   "S", "i", "m", "i", "l", "a", "r", " ", "Q", "u", "e", "r", "i", "e", "s", ":",
                   "\n", "\n">>
Text_bold == <<"*", "*">>
Text_dash == <<" ", "-", " ">>
Text_nl == <<"\n">>
Text_sqlOpen == <<"BACKTICK", "BACKTICK", "BACKTICK", "s", "q", "l", "\n">>
Text_sqlClose == <<"\n", "BACKTICK", "BACKTICK", "BACKTICK", "\n", "\n">>
Text_tables == <<"#", "#", "#", " ", "R", "e", "l", "e", "v", "a", "n", "t", " ", "S", "c", "h",
                 "e", "m", "a", " ", "T", "a", "b", "l", "e", "s", ":", "\n", "\n">>
Text_columns == <<"C", "o", "l", "u", "m", "n", "s", ":", "\n">>
Text_colOpen == <<" ", " ", "-", " ", "BACKTICK">>
Text_colType == <<"BACKTICK", " ", "(">>
Text_rpar == <<")">>
Text_unitOpen == <<" ", "[">>
Text_unitClose == <<"]">>
Text_relationships == <<"#", "#", "#", " ", "T", "a", "b", "l", "e", " ", "R", "e", "l", "a", "t",
                        "i", "o", "n", "s", "h", "i", "p", "s", ":", "\n", "\n">>
Text_relOpen == <<"-", " ", "BACKTICK">>
Text_relArrow == <<"BACKTICK", " ", "->", " ", "BACKTICK">>
Text_relOn == <<"BACKTICK", " ", "o", "n", " ">>

\* The phrases detectQueryIntent looks for
Phrase_how_many == <<"h", "o", "w", " ", "m", "a", "n", "y">>
Phrase_count == <<"c", "o", "u", "n", "t">>
Phrase_total_number == <<"t", "o", "t", "a", "l", " ", "n", "u", "m", "b", "e", "r">>
Phrase_join == <<"j", "o", "i", "n">>
Phrase_relate == <<"r", "e", "l", "a", "t", "e">>
Phrase_associate == <<"a", "s", "s", "o", "c", "i", "a", "t", "e">>
Phrase_with == <<"w", "i", "t", "h">>
Phrase_their == <<"t", "h", "e", "i", "r">>
Phrase_month == <<"m", "o", "n", "t", "h">>
Phrase_year == <<"y", "e", "a", "r">>
Phrase_date == <<"d", "a", "t", "e">>
Phrase_timeline == <<"t", "i", "m", "e", "l", "i", "n", "e">>
Phrase_trend == <<"t", "r", "e", "n", "d">>
Phrase_over_time == <<"o", "v", "e", "r", " ", "t", "i", "m", "e">>
Phrase_top == <<"t", "o", "p">>
Phrase_bottom == <<"b", "o", "t", "t", "o", "m">>
Phrase_rank == <<"r", "a", "n", "k">>
Phrase_highest == <<"h", "i", "g", "h", "e", "s", "t">>
Phrase_lowest == <<"l", "o", "w", "e", "s", "t">>
Phrase_best == <<"b", "e", "s", "t">>
Phrase_worst == <<"w", "o", "r", "s", "t">>
Phrase_average == <<"a", "v", "e", "r", "a", "g", "e">>
Phrase_sum == <<"s", "u", "m">>
Phrase_total == <<"t", "o", "t", "a", "l">>
Phrase_breakdown == <<"b", "r", "e", "a", "k", "d", "o", "w", "n">>
Phrase_distribution == <<"d", "i", "s", "t", "r", "i", "b", "u", "t", "i", "o", "n">>
Phrase_analysis_by == <<"a", "n", "a", "l", "y", "s", "i", "s", " ", "b", "y">>
Phrase_where == <<"w", "h", "e", "r", "e">>
Phrase_filter == <<"f", "i", "l", "t", "e", "r">>
Phrase_specific == <<"s", "p", "e", "c", "i", "f", "i", "c">>
Phrase_over_budget == <<"o", "v", "e", "r", " ", "b", "u", "d", "g", "e", "t">>
Phrase_exceeds == <<"e", "x", "c", "e", "e", "d", "s">>

\* The SQL operations of intentOperations
Operation_COUNT == <<"C", "O", "U", "N", "T">>
Operation_JOIN == <<"J", "O", "I", "N">>
Operation_LEFT_JOIN == <<"L", "E", "F", "T", " ", "J", "O", "I", "N">>
Operation_GROUP_BY == <<"G", "R", "O", "U", "P", " ", "B", "Y">>
Operation_SUM == <<"S", "U", "M">>
Operation_AVG == <<"A", "V", "G">>
Operation_DATE == <<"D", "A", "T", "E">>
Operation_DATE_TRUNC == <<"D", "A", "T", "E", "_", "T", "R", "U", "N", "C">>
Operation_INTERVAL == <<"I", "N", "T", "E", "R", "V", "A", "L">>
Operation_ORDER_BY == <<"O", "R", "D", "E", "R", " ", "B", "Y">>
Operation_LIMIT == <<"L", "I", "M", "I", "T">>
Operation_WHERE == <<"W", "H", "E", "R", "E">>

\* The data_type texts of the schema metadata payloads
TypeName ==
  [
    array |-> <<"a", "r", "r", "a", "y">>,
    bigint |-> <<"b", "i", "g", "i", "n", "t">>,
    boolean |-> <<"b", "o", "o", "l", "e", "a", "n">>,
    column |-> <<"c", "o", "l", "u", "m", "n">>,
    date |-> <<"d", "a", "t", "e">>,
    integer |-> <<"i", "n", "t", "e", "g", "e", "r">>,
    jsonb |-> <<"j", "s", "o", "n", "b">>,
    numeric |-> <<"n", "u", "m", "e", "r", "i", "c">>,
    table |-> <<"t", "a", "b", "l", "e">>,
    text |-> <<"t", "e", "x", "t">>,
    timestamp |-> <<"t", "i", "m", "e", "s", "t", "a", "m", "p">>,
    uuid |-> <<"u", "u", "i", "d">>,
    varchar |-> <<"v", "a", "r", "c", "h", "a", "r">>
  ]

\* Three entries of SEMANTIC_MODELS under their ids, with the fields the
\* semantic_models payload keeps and the retriever reads
model_account_count ==
  [name |-> <<"T", "o", "t", "a", "l", " ", "A", "c", "c", "o", "u", "n", "t", "s">>,
   description |-> <<"C", "o", "u", "n", "t", " ", "t", "o", "t", "a", "l", " ", "n", "u", "m",
                     "b", "e", "r", " ", "o", "f", " ", "a", "c", "c", "o", "u", "n", "t", "s">>,
   sql |-> <<"S", "E", "L", "E", "C", "T", " ", "C", "O", "U", "N", "T", "(", "*", ")", " ", "A",
             "S", " ", "t", "o", "t", "a", "l", "_", "a", "c", "c", "o", "u", "n", "t", "s", " ",
             "F", "R", "O", "M", " ", "a", "c", "c", "o", "u", "n", "t", "s">>]
model_top_securities ==
  [name |-> <<"T", "o", "p", " ", "S", "e", "c", "u", "r", "i", "t", "i", "e", "s", " ", "b", "y",
              " ", "M", "a", "r", "k", "e", "t", " ", "C", "a", "p">>,
   description |-> <<"G", "e", "t", " ", "t", "o", "p", " ", "s", "e", "c", "u", "r", "i", "t",
                     "i", "e", "s", " ", "r", "a", "n", "k", "e", "d", " ", "b", "y", " ", "m",
                     "a", "r", "k", "e", "t", " ", "c", "a", "p", "i", "t", "a", "l", "i", "z",
                     "a", "t", "i", "o", "n">>,
   sql |-> <<"S", "E", "L", "E", "C", "T", " ", "t", "i", "c", "k", "e", "r", ",", " ", "n", "a",
             "m", "e", ",", " ", "s", "e", "c", "u", "r", "i", "t", "y", "_", "t", "y", "p", "e",
             ",", " ", "s", "e", "c", "t", "o", "r", ",", " ", "m", "a", "r", "k", "e", "t", "_",
             "c", "a", "p", " ", "F", "R", "O", "M", " ", "s", "e", "c", "u", "r", "i", "t", "i",
             "e", "s", " ", "O", "R", "D", "E", "R", " ", "B", "Y", " ", "m", "a", "r", "k", "e",
             "t", "_", "c", "a", "p", " ", "D", "E", "S", "C", " ", "L", "I", "M", "I", "T", " ",
             "1", "0">>]
model_securities_by_sector ==
  [name |-> <<"S", "e", "c", "u", "r", "i", "t", "i", "e", "s", " ", "b", "y", " ", "S", "e", "c",
              "t", "o", "r">>,
   description |-> <<"G", "r", "o", "u", "p", " ", "s", "e", "c", "u", "r", "i", "t", "i", "e",
                     "s", " ", "b", "y", " ", "s", "e", "c", "t", "o", "r">>,
   sql |-> <<"S", "E", "L", "E", "C", "T", " ", "s", "e", "c", "t", "o", "r", ",", " ", "s", "e",
             "c", "u", "r", "i", "t", "y", "_", "t", "y", "p", "e", ",", " ", "C", "O", "U", "N",
             "T", "(", "*", ")", " ", "a", "s", " ", "s", "e", "c", "u", "r", "i", "t", "y", "_",
             "c", "o", "u", "n", "t", ",", " ", "S", "U", "M", "(", "m", "a", "r", "k", "e", "t",
             "_", "c", "a", "p", ")", " ", "a", "s", " ", "t", "o", "t", "a", "l", "_", "m", "a",
             "r", "k", "e", "t", "_", "c", "a", "p", " ", "F", "R", "O", "M", " ", "s", "e", "c",
             "u", "r", "i", "t", "i", "e", "s", " ", "G", "R", "O", "U", "P", " ", "B", "Y", " ",
             "s", "e", "c", "t", "o", "r", ",", " ", "s", "e", "c", "u", "r", "i", "t", "y", "_",
             "t", "y", "p", "e", " ", "O", "R", "D", "E", "R", " ", "B", "Y", " ", "t", "o", "t",
             "a", "l", "_", "m", "a", "r", "k", "e", "t", "_", "c", "a", "p", " ", "D", "E", "S",
             "C">>]

\* columnInfo.description of the columns the schema_metadata hits name
ColumnDescription ==
  (<<S_securities, S_market_cap>> :> <<"M", "a", "r", "k", "e", "t", " ", "c", "a", "p", "i", "t",
                                       "a", "l", "i", "z", "a", "t", "i", "o", "n">>)
  @@ (<<S_securities, S_ticker>> :> <<"S", "e", "c", "u", "r", "i", "t", "y", " ", "t", "i", "c",
                                      "k", "e", "r", " ", "s", "y", "m", "b", "o", "l">>)
  @@ (<<S_accounts, S_id>> :> <<"P", "r", "i", "m", "a", "r", "y", " ", "k", "e", "y">>)
  @@ (<<S_accounts, S_balance>> :> <<"C", "u", "r", "r", "e", "n", "t", " ", "a", "c", "c", "o",
                                     "u", "n", "t", " ", "b", "a", "l", "a", "n", "c", "e">>)

\* The query texts handed to buildContext
QueryText_top == <<"S", "h", "o", "w", " ", "t", "o", "p", " ", "5", " ", "s", "e", "c", "u", "r",
                   "i", "t", "i", "e", "s", " ", "b", "y", " ", "m", "a", "r", "k", "e", "t", " ",
                   "c", "a", "p">>
QueryText_count == <<"H", "o", "w", " ", "m", "a", "n", "y", " ", "a", "c", "c", "o", "u", "n",
                     "t", "s", " ", "d", "o", " ", "w", "e", " ", "h", "a", "v", "e", "?">>
QueryText_empty == <<>>

\* Sample queries of run-api.mjs and test-e2e.ts
QueryText_top_customers == <<"T", "o", "p", " ", "5", " ", "c", "u", "s", "t", "o", "m", "e",
                             "r", "s">>
QueryText_top_accounts == <<"S", "h", "o", "w", " ", "m", "e", " ", "t", "h", "e", " ", "t",
                            "o", "p", " ", "1", "0", " ", "a", "c", "c", "o", "u", "n", "t",
                            "s", " ", "b", "y", " ", "b", "a", "l", "a", "n", "c", "e">>
QueryText_how_many_customers == <<"H", "o", "w", " ", "m", "a", "n", "y", " ", "c", "u", "s",
                                  "t", "o", "m", "e", "r", "s", "?">>
QueryText_with_conversations == <<"S", "h", "o", "w", " ", "c", "u", "s", "t", "o", "m", "e",
                                  "r", "s", " ", "w", "i", "t", "h", " ", "c", "o", "n", "v",
                                  "e", "r", "s", "a", "t", "i", "o", "n", "s">>
QueryText_by_month == <<"C", "o", "n", "v", "e", "r", "s", "a", "t", "i", "o", "n", "s", " ",
                        "b", "y", " ", "m", "o", "n", "t", "h">>
QueryText_goals == <<"W", "h", "a", "t", " ", "a", "r", "e", " ", "m", "y", " ", "f", "i", "n",
                     "a", "n", "c", "i", "a", "l", " ", "g", "o", "a", "l", "s", "?">>

\* two texts of 72 characters, different in their 22nd character, that md5
\* gives one digest
CollidingText_A == <<"T", "E", "X", "T", "C", "O", "L", "L", "B", "Y", "f", "G", "i", "J", "U",
                     "E", "T", "H", "Q", "4", "h", "A", "c", "K", "S", "M", "d", "5", "z", "Y",
                     "p", "g", "q", "f", "1", "Y", "R", "D", "h", "k", "m", "x", "H", "k", "h",
                     "P", "W", "p", "t", "r", "k", "o", "y", "z", "2", "8", "w", "n", "I", "9",
                     "V", "0", "a", "H", "e", "A", "u", "a", "K", "n", "a", "k">>
CollidingText_B == <<"T", "E", "X", "T", "C", "O", "L", "L", "B", "Y", "f", "G", "i", "J", "U",
                     "E", "T", "H", "Q", "4", "h", "E", "c", "K", "S", "M", "d", "5", "z", "Y",
                     "p", "g", "q", "f", "1", "Y", "R", "D", "h", "k", "m", "x", "H", "k", "h",
                     "P", "W", "p", "t", "r", "k", "o", "y", "z", "2", "8", "w", "n", "I", "9",
                     "V", "0", "a", "H", "e", "A", "u", "a", "K", "n", "a", "k">>

\* The text field of the three entries of SEMANTIC_MODELS: what is embedded
ModelText_account_count == <<"C", "o", "u", "n", "t", " ", "t", "o", "t", "a", "l", " ", "a",
                             "c", "c", "o", "u", "n", "t", "s", " ", "i", "n", " ", "t", "h",
                             "e", " ", "s", "y", "s", "t", "e", "m">>
ModelText_top_securities == <<"F", "i", "n", "d", " ", "t", "h", "e", " ", "t", "o", "p", " ",
                              "1", "0", " ", "s", "e", "c", "u", "r", "i", "t", "i", "e", "s",
                              " ", "b", "y", " ", "m", "a", "r", "k", "e", "t", " ", "c", "a",
                              "p", "i", "t", "a", "l", "i", "z", "a", "t", "i", "o", "n">>
ModelText_securities_by_sector == <<"A", "n", "a", "l", "y", "z", "e", " ", "s", "e", "c", "u",
                                    "r", "i", "t", "i", "e", "s", " ", "d", "i", "s", "t", "r",
                                    "i", "b", "u", "t", "i", "o", "n", " ", "a", "c", "r", "o",
                                    "s", "s", " ", "s", "e", "c", "t", "o", "r", "s", " ", "a",
                                    "n", "d", " ", "t", "y", "p", "e", "s">>

\* Their ids, spelled
ModelId_account_count == <<"m", "o", "d", "e", "l", "_", "a", "c", "c", "o", "u", "n", "t",
                           "_", "c", "o", "u", "n", "t">>
ModelId_top_securities == <<"m", "o", "d", "e", "l", "_", "t", "o", "p", "_", "s", "e", "c",
                            "u", "r", "i", "t", "i", "e", "s">>
ModelId_securities_by_sector == <<"m", "o", "d", "e", "l", "_", "s", "e", "c", "u", "r", "i",
                                  "t", "i", "e", "s", "_", "b", "y", "_", "s", "e", "c", "t",
                                  "o", "r">>

\* String.prototype.toLowerCase, on one character
ToLower(c) ==
  IF \E k \in 1..26 : UpperLetters[k] = c
    THEN LowerLetters[CHOOSE k \in 1..26 : UpperLetters[k] = c]
    ELSE c

\* String.prototype.toLowerCase
LowerCase(s) == IF s = <<>> THEN <<>> ELSE [k \in 1..Len(s) |-> ToLower(s[k])]

\* a || b on texts: the empty text is falsy
OrElse(a, b) == IF a # <<>> THEN a ELSE b

\* Array.from(new Set(list)): the distinct entries, in order of first occurrence
RECURSIVE Unique(_)
Unique(list) ==
  IF list = <<>> THEN <<>>
  ELSE LET rest == Unique(SubSeq(list, 1, Len(list) - 1))
           last == list[Len(list)]
       IN  IF \E k \in 1..Len(rest) : rest[k] = last THEN rest ELSE Append(rest, last)

\* the first n entries of a list
Take(list, n) == SubSeq(list, 1, IF Len(list) < n THEN Len(list) ELSE n)

----------------------------------------------------------------------------
(* Query cache (query-cache.ts)                                            *)

\* DEFAULT_TTL = 5 * 60 * 1000, in milliseconds
DEFAULT_TTL == 5 * 60 * 1000

\* the age after which getEmbedding drops an embedding: 60 * 60 * 1000
EMBEDDING_TTL == 60 * 60 * 1000

\* hashQuery: crypto.createHash("md5").update(query).digest("hex"), by the
\* digests md5 gives the texts in use
hashQuery(query) ==
  CASE query = QueryText_top -> "5d660ae4e0e9d3ec72208b85df54134d"
    [] query = QueryText_count -> "f79406e6892e43c74fe90491675c5756"
    [] query = QueryText_empty -> "d41d8cd98f00b204e9800998ecf8427e"
    [] query = CollidingText_A -> "faad49866e9498fc1719f5289e7a0269"
    [] query = CollidingText_B -> "faad49866e9498fc1719f5289e7a0269"
    [] query = ModelText_account_count -> "aa4b60c9553dd0a4acbeb3c42d862541"
    [] query = ModelText_top_securities -> "adf1aad75dda8820b45ec4a8f8c27ea5"
    [] query = ModelText_securities_by_sector -> "1f372a9c08e08b4151c25ca03c4cf834"

\* the keys the two Maps of the cache can hold
Digests ==
  {hashQuery(text) : text \in {QueryText_top, QueryText_count, QueryText_empty,
                               CollidingText_A, CollidingText_B,
                               ModelText_account_count, ModelText_top_securities,
                               ModelText_securities_by_sector}}

\* the value a context variable holds before any context exists
NoContext ==
  [models |-> <<>>, columns |-> <<>>, relationships |-> <<>>,
   tables_involved |-> <<>>, context_text |-> <<>>, token_estimate |-> 0]

\* Map.get(hash) of a key the resultCache does not hold
NoResultEntry == [cached |-> FALSE, data |-> NoContext, timestamp |-> 0, ttl |-> 0]

\* Map.get(hash) of a key the embeddingCache does not hold
NoEmbeddingEntry == [cached |-> FALSE, vector |-> <<>>, timestamp |-> 0]

\* getResult that never finds an entry
getResultNeverHits(cache, query, now) ==
  [hit |-> FALSE, data |-> NoContext, cache |-> cache]

\* QueryCache.getResult at time now: the data (hit) or null, and the cache
\* after the call, which has lost the entry when it had expired
getResult(cache, query, now) ==
  LET hash == hashQuery(query)
      cached == cache.resultCache[hash]
  IN  IF ~cached.cached
        THEN [hit |-> FALSE, data |-> NoContext, cache |-> cache]
      ELSE IF now - cached.timestamp > cached.ttl
        THEN [hit |-> FALSE, data |-> NoContext,
              cache |-> [cache EXCEPT !.resultCache[hash] = NoResultEntry]]
      ELSE [hit |-> TRUE, data |-> cached.data, cache |-> cache]

\* cacheResult that stores nothing
cacheResultDropped(cache, query, data, ttl, now) == cache

\* QueryCache.cacheResult at time now
cacheResult(cache, query, data, ttl, now) ==
  [cache EXCEPT !.resultCache[hashQuery(query)] =
     [cached |-> TRUE, data |-> data, timestamp |-> now, ttl |-> ttl]]

\* getEmbedding that never drops an embedding
getEmbeddingKept(cache, text, now) ==
  LET cached == cache.embeddingCache[hashQuery(text)]
  IN  [hit |-> cached.cached, vector |-> cached.vector, cache |-> cache]

\* QueryCache.getEmbedding at time now
getEmbedding(cache, text, now) ==
  LET hash == hashQuery(text)
      cached == cache.embeddingCache[hash]
  IN  IF ~cached.cached
        THEN [hit |-> FALSE, vector |-> <<>>, cache |-> cache]
      ELSE IF now - cached.timestamp > EMBEDDING_TTL
        THEN [hit |-> FALSE, vector |-> <<>>,
              cache |-> [cache EXCEPT !.embeddingCache[hash] = NoEmbeddingEntry]]
      ELSE [hit |-> TRUE, vector |-> cached.vector, cache |-> cache]

\* QueryCache.cacheEmbedding at time now
cacheEmbedding(cache, text, vector, now) ==
  [cache EXCEPT !.embeddingCache[hashQuery(text)] =
     [cached |-> TRUE, vector |-> vector, timestamp |-> now]]

----------------------------------------------------------------------------
(* Embedder and vector index (embedder.ts, qdrant-client.js)               *)

\* The running state a call works on: the process-wide queryCache and
\* cachedSchema, the fields of the retriever (schema loaded, embedder and
\* vectorDB initialized), the operations performed so far, whether an
\* exception is propagating, and the values the steps hand on.
CallState(cache, schemaCached, instance) ==
  [cache |-> cache, cachedSchema |-> schemaCached, retriever |-> instance,
   log |-> <<>>, raised |-> FALSE, vector |-> <<>>, results |-> <<>>,
   models |-> <<>>, columns |-> <<>>, context |-> NoContext, outcome |-> "none"]

Logged(st, operation) == [st EXCEPT !.log = Append(@, operation)]

\* new SemanticRetriever(): no schema, a new embedder and a new vectorDB
NewSemanticRetriever == [schema |-> FALSE, embedder |-> FALSE, vectorDB |-> FALSE]

\* SemanticEmbedder.initialize: loads the model unless it is loaded; throws
\* when the model cannot be loaded
EmbedderInitialize(st, available) ==
  IF st.retriever.embedder THEN st
  ELSE IF available.embedder
    THEN [Logged(st, "pipeline") EXCEPT !.retriever.embedder = TRUE]
    ELSE [Logged(st, "pipeline") EXCEPT !.raised = TRUE]

\* QdrantVectorDB.initialize: connects and creates the collections unless it
\* has; throws when Qdrant does not answer
QdrantInitialize(st, available) ==
  IF st.retriever.vectorDB THEN st
  ELSE IF available.qdrant
    THEN [Logged(st, "connect") EXCEPT !.retriever.vectorDB = TRUE]
    ELSE [Logged(st, "connect") EXCEPT !.raised = TRUE]

\* loadSchemaRegistry: fills cachedSchema unless it is filled
loadSchemaRegistry(st) ==
  [Logged(st, "loadSchemaRegistry") EXCEPT !.cachedSchema = TRUE]

\* the embedding of a text: a vector the text determines
Embedding(text) == <<"vector", text>>

\* SemanticEmbedder.embedText (embedQuery): the vector is left in st.vector
embedText(st, available, text, now) ==
  Then(IF st.retriever.embedder THEN st ELSE EmbedderInitialize(st, available),
       LAMBDA a :
         IF a.raised THEN a
         ELSE Then(getEmbedding(a.cache, text, now), LAMBDA g :
              Then([Logged(a, "getEmbedding") EXCEPT !.cache = g.cache], LAMBDA b :
                IF g.hit THEN [b EXCEPT !.vector = g.vector]
                ELSE IF available.embedder
                  THEN [Logged(Logged(b, "extractor"), "cacheEmbedding") EXCEPT
                          !.cache = cacheEmbedding(b.cache, text, Embedding(text), now),
                          !.vector = Embedding(text)]
                ELSE [Logged(b, "extractor") EXCEPT !.raised = TRUE])))

\* A point of the semantic_models collection as a search returns it: the
\* payload is the metadata embedSemanticModels gave it, the score is in
\* thousandths
ModelPoint(id, model, score) == [id |-> id, score |-> score, payload |-> model]

\* A column point of the schema_metadata collection, with the metadata
\* embedSchemaMetadata gave it (no column of the registry has a unit)
ColumnPoint(table, column, score) ==
  [id |-> <<"col", table, column>>, score |-> score,
   payload |-> [type |-> TypeName.column, table |-> table, column |-> column,
                data_type |-> TypeName[registry[table].columns[column].type],
                description |-> ColumnDescription[<<table, column>>],
                unit |-> <<>>]]

\* A table point of the schema_metadata collection
TablePoint(table, score) ==
  [id |-> <<"table", table>>, score |-> score,
   payload |-> [type |-> TypeName.table, table |-> table, column |-> <<>>,
                data_type |-> <<>>, description |-> registry[table].description,
                unit |-> <<>>]]

\* The points of semantic_models nearest to a vector, best first: what Qdrant
\* answers for the vectors of the three query texts
SemanticModelsNearest(vector) ==
  LET text == vector[2]
  IN  IF text = QueryText_top
        THEN <<ModelPoint("model_top_securities", model_top_securities, 712),
               ModelPoint("model_securities_by_sector", model_securities_by_sector, 548),
               ModelPoint("model_account_count", model_account_count, 305)>>
      ELSE IF text = QueryText_count
        THEN <<ModelPoint("model_account_count", model_account_count, 764),
               ModelPoint("model_securities_by_sector", model_securities_by_sector, 331),
               ModelPoint("model_top_securities", model_top_securities, 207)>>
      ELSE <<ModelPoint("model_account_count", model_account_count, 143),
             ModelPoint("model_top_securities", model_top_securities, 143),
             ModelPoint("model_securities_by_sector", model_securities_by_sector, 98)>>

\* The points of schema_metadata nearest to a vector, best first
SchemaMetadataNearest(vector) ==
  LET text == vector[2]
  IN  IF text = QueryText_top
        THEN <<ColumnPoint(S_securities, S_market_cap, 689),
               TablePoint(S_securities, 601),
               ColumnPoint(S_securities, S_ticker, 455),
               ColumnPoint(S_accounts, S_balance, 212)>>
      ELSE IF text = QueryText_count
        THEN <<TablePoint(S_accounts, 655),
               ColumnPoint(S_accounts, S_id, 402),
               ColumnPoint(S_accounts, S_balance, 398),
               ColumnPoint(S_securities, S_ticker, 120)>>
      ELSE <<TablePoint(S_accounts, 101),
             ColumnPoint(S_securities, S_ticker, 77)>>

\* QdrantVectorDB.searchSemanticModels: the answer is left in st.results
searchSemanticModels(st, available, vector, topK) ==
  Then(IF st.retriever.vectorDB THEN st ELSE QdrantInitialize(st, available),
       LAMBDA a :
         IF a.raised THEN a
         ELSE IF available.qdrant
           THEN [Logged(a, "searchSemanticModels") EXCEPT
                   !.results = Take(SemanticModelsNearest(vector), topK)]
         ELSE [Logged(a, "searchSemanticModels") EXCEPT !.raised = TRUE])

\* QdrantVectorDB.searchSchemaMetadata
searchSchemaMetadata(st, available, vector, topK) ==
  Then(IF st.retriever.vectorDB THEN st ELSE QdrantInitialize(st, available),
       LAMBDA a :
         IF a.raised THEN a
         ELSE IF available.qdrant
           THEN [Logged(a, "searchSchemaMetadata") EXCEPT
                   !.results = Take(SchemaMetadataNearest(vector), topK)]
         ELSE [Logged(a, "searchSchemaMetadata") EXCEPT !.raised = TRUE])

----------------------------------------------------------------------------
(* Semantic retriever (semantic-retriever.ts)                              *)

\* a detectQueryIntent that looks for the RANK phrases before the TIME_BASED
\* phrases
detectQueryIntentRankFirst(query) ==
  LET lowerQuery == LowerCase(query)
      has(phrase) == Includes(lowerQuery, phrase)
  IN  IF has(Phrase_how_many) \/ has(Phrase_count) \/ has(Phrase_total_number)
        THEN "COUNT"
      ELSE IF \/ has(Phrase_join) \/ has(Phrase_relate) \/ has(Phrase_associate)
              \/ (has(Phrase_with) /\ has(Phrase_their))
        THEN "JOIN"
      ELSE IF \/ has(Phrase_top) \/ has(Phrase_bottom) \/ has(Phrase_rank)
              \/ has(Phrase_highest) \/ has(Phrase_lowest) \/ has(Phrase_best)
              \/ has(Phrase_worst)
        THEN "RANK"
      ELSE IF \/ has(Phrase_month) \/ has(Phrase_year) \/ has(Phrase_date)
              \/ has(Phrase_timeline) \/ has(Phrase_trend) \/ has(Phrase_over_time)
        THEN "TIME_BASED"
      ELSE IF \/ has(Phrase_average) \/ has(Phrase_sum) \/ has(Phrase_total)
              \/ has(Phrase_breakdown) \/ has(Phrase_distribution)
              \/ has(Phrase_analysis_by)
        THEN "AGGREGATE"
      ELSE IF \/ has(Phrase_where) \/ has(Phrase_filter) \/ has(Phrase_specific)
              \/ has(Phrase_over_budget) \/ has(Phrase_exceeds)
        THEN "FILTER"
      ELSE "UNKNOWN"

\* detectQueryIntent
detectQueryIntent(query) ==
  LET lowerQuery == LowerCase(query)
      has(phrase) == Includes(lowerQuery, phrase)
  IN  IF has(Phrase_how_many) \/ has(Phrase_count) \/ has(Phrase_total_number)
        THEN "COUNT"
      ELSE IF \/ has(Phrase_join) \/ has(Phrase_relate) \/ has(Phrase_associate)
              \/ (has(Phrase_with) /\ has(Phrase_their))
        THEN "JOIN"
      ELSE IF \/ has(Phrase_month) \/ has(Phrase_year) \/ has(Phrase_date)
              \/ has(Phrase_timeline) \/ has(Phrase_trend) \/ has(Phrase_over_time)
        THEN "TIME_BASED"
      ELSE IF \/ has(Phrase_top) \/ has(Phrase_bottom) \/ has(Phrase_rank)
              \/ has(Phrase_highest) \/ has(Phrase_lowest) \/ has(Phrase_best)
              \/ has(Phrase_worst)
        THEN "RANK"
      ELSE IF \/ has(Phrase_average) \/ has(Phrase_sum) \/ has(Phrase_total)
              \/ has(Phrase_breakdown) \/ has(Phrase_distribution)
              \/ has(Phrase_analysis_by)
        THEN "AGGREGATE"
      ELSE IF \/ has(Phrase_where) \/ has(Phrase_filter) \/ has(Phrase_specific)
              \/ has(Phrase_over_budget) \/ has(Phrase_exceeds)
        THEN "FILTER"
      ELSE "UNKNOWN"

\* intentOperations of filterModelsByIntent
intentOperations ==
  [COUNT |-> <<Operation_COUNT>>,
   JOIN |-> <<Operation_JOIN, Operation_LEFT_JOIN>>,
   AGGREGATE |-> <<Operation_GROUP_BY, Operation_SUM, Operation_AVG>>,
   TIME_BASED |-> <<Operation_DATE, Operation_DATE_TRUNC, Operation_INTERVAL>>,
   RANK |-> <<Operation_ORDER_BY, Operation_LIMIT>>,
   FILTER |-> <<Operation_WHERE>>,
   UNKNOWN |-> <<>>]

\* filterModelsByIntent
filterModelsByIntent(models, intent) ==
  LET operations == intentOperations[intent]
      hasRelevantOperation(model) ==
        \E k \in 1..Len(operations) : Includes(UpperCase(model.sql), operations[k])
  IN  IF operations = <<>> THEN models
      ELSE SelectSeq(models, hasRelevantOperation)

\* sort((a, b) => b.score - a.score): one entry put into a sorted list, behind
\* the entries that score as much (the sort is stable)
InsertByScore(sorted, entry) ==
  LET k == Cardinality({i \in 1..Len(sorted) : sorted[i].score >= entry.score})
  IN  SubSeq(sorted, 1, k) \o <<entry>> \o SubSeq(sorted, k + 1, Len(sorted))

RECURSIVE SortByScore(_)
SortByScore(list) ==
  IF list = <<>> THEN <<>>
  ELSE InsertByScore(SortByScore(SubSeq(list, 1, Len(list) - 1)), list[Len(list)])

\* the RetrievedModel of a search result (the payload holds no id)
RetrievedModel(r) ==
  [id |-> r.id,
   name |-> OrElse(r.payload.name, <<"U", "n", "k", "n", "o", "w", "n">>),
   description |-> r.payload.description,
   sql |-> r.payload.sql,
   score |-> r.score]

\* the RetrievedColumn of a search result
RetrievedColumn(r) ==
  [table |-> r.payload.table,
   column |-> OrElse(r.payload.column,
                     IF r.payload.type = TypeName.table THEN r.payload.table ELSE <<>>),
   type |-> OrElse(r.payload.data_type, r.payload.type),
   description |-> r.payload.description,
   unit |-> r.payload.unit,
   score |-> r.score]

\* retrieveSemanticModels: the models are left in st.models; an exception of
\* the embedder or of the search is caught and leaves none
retrieveSemanticModels(st, available, query, topK, now) ==
  Then(embedText(st, available, query, now), LAMBDA a :
  Then(IF a.raised THEN a ELSE searchSemanticModels(a, available, a.vector, topK),
       LAMBDA b :
         IF b.raised THEN [b EXCEPT !.raised = FALSE, !.models = <<>>]
         ELSE [b EXCEPT !.models =
                 SortByScore([k \in 1..Len(b.results) |->
                                RetrievedModel(b.results[k])])]))

\* a column with a table and a column name
Named(c) == c.column # <<>> /\ c.table # <<>>

\* retrieveSchemaMetadata: the columns are left in st.columns
retrieveSchemaMetadata(st, available, query, topK, now) ==
  Then(embedText(st, available, query, now), LAMBDA a :
  Then(IF a.raised THEN a ELSE searchSchemaMetadata(a, available, a.vector, topK),
       LAMBDA b :
         IF b.raised THEN [b EXCEPT !.raised = FALSE, !.columns = <<>>]
         ELSE [b EXCEPT !.columns =
                 SortByScore(SelectSeq([k \in 1..Len(b.results) |->
                                          RetrievedColumn(b.results[k])], Named))]))

\* the traversal state of expandRelationships: the relationships pushed so
\* far and the visited set
RECURSIVE traverse(_, _, _, _), traverseRelationships(_, _, _, _, _)

\* a traverse that does not look a table up in visited
traverseVisitedAgain(schema, walk, tableName, depth) ==
  IF depth > 2 THEN walk
  ELSE LET entered == [walk EXCEPT !.visited = @ \cup {tableName}]
       IN  IF tableName \notin DOMAIN schema THEN entered
           ELSE traverseRelationships(schema, entered, tableName,
                                      schema[tableName].relationships, depth)

\* traverse(tableName, depth) over the schema
traverse(schema, walk, tableName, depth) ==
  IF depth > 2 \/ tableName \in walk.visited THEN walk
  ELSE LET entered == [walk EXCEPT !.visited = @ \cup {tableName}]
       IN  IF tableName \notin DOMAIN schema THEN entered
           ELSE traverseRelationships(schema, entered, tableName,
                                      schema[tableName].relationships, depth)

\* the loop "for (const rel of tableSchema.relationships)" from its first
\* remaining relationship on
traverseRelationships(schema, walk, tableName, rels, depth) ==
  IF rels = <<>> THEN walk
  ELSE LET rel == Head(rels)
           pushed == [walk EXCEPT !.relationships =
                        Append(@, [from_table |-> tableName, to_table |-> rel.table,
                                   join_condition |-> rel.join_key])]
           deeper == IF depth < 2 THEN traverse(schema, pushed, rel.table, depth + 1)
                     ELSE pushed
       IN  traverseRelationships(schema, deeper, tableName, Tail(rels), depth)

\* the loop "for (const tableName of tableNames) traverse(tableName)"
RECURSIVE traverseAll(_, _, _)
traverseAll(schema, walk, tableNames) ==
  IF tableNames = <<>> THEN walk
  ELSE traverseAll(schema, traverse(schema, walk, Head(tableNames), 0), Tail(tableNames))

\* Map.set(key, value): a key the map holds keeps its place and takes the value
MapSet(map, key, value) ==
  IF \E k \in 1..Len(map) : map[k].key = key
    THEN [k \in 1..Len(map) |->
            IF map[k].key = key THEN [key |-> key, value |-> value] ELSE map[k]]
    ELSE Append(map, [key |-> key, value |-> value])

\* new Map(relationships.map(r => [from_table + to_table, r])), as the list of
\* its entries
RECURSIVE RelationshipMap(_)
RelationshipMap(relationships) ==
  IF relationships = <<>> THEN <<>>
  ELSE LET r == relationships[Len(relationships)]
       IN  MapSet(RelationshipMap(SubSeq(relationships, 1, Len(relationships) - 1)),
                  r.from_table \o r.to_table, r)

\* expandRelationships over a loaded schema
expandRelationships(schema, tableNames) ==
  LET walk == traverseAll(schema, [relationships |-> <<>>, visited |-> {}], tableNames)
      map == RelationshipMap(walk.relationships)
  IN  [k \in 1..Len(map) |-> map[k].value]

RECURSIVE ModelsText(_)
\* the loop "for (const model of models)" of buildContextText
ModelsText(models) ==
  IF models = <<>> THEN <<>>
  ELSE LET model == Head(models)
       IN  Text_bold \o model.name \o Text_bold \o Text_dash \o model.description
             \o Text_nl
             \o Text_sqlOpen \o model.sql \o Text_sqlClose
             \o ModelsText(Tail(models))

RECURSIVE ColumnsText(_)
\* the loop "for (const col of tableColumns)"
ColumnsText(tableColumns) ==
  IF tableColumns = <<>> THEN <<>>
  ELSE LET col == Head(tableColumns)
       IN  Text_colOpen \o col.column \o Text_colType \o col.type \o Text_rpar
             \o (IF col.description # <<>> THEN Text_dash \o col.description ELSE <<>>)
             \o (IF col.unit # <<>> THEN Text_unitOpen \o col.unit \o Text_unitClose
                 ELSE <<>>)
             \o Text_nl
             \o ColumnsText(Tail(tableColumns))

RECURSIVE TablesText(_, _, _)
\* the loop "for (const tableName of uniqueTables)"
TablesText(schema, uniqueTables, columns) ==
  IF uniqueTables = <<>> THEN <<>>
  ELSE LET tableName == Head(uniqueTables)
           ofTable(c) == c.table = tableName
           rest == TablesText(schema, Tail(uniqueTables), columns)
       IN  IF tableName \notin DOMAIN schema THEN rest
           ELSE Text_bold \o tableName \o Text_bold \o Text_dash
                  \o schema[tableName].description \o Text_nl
                  \o Text_columns
                  \o ColumnsText(SelectSeq(columns, ofTable))
                  \o Text_nl
                  \o rest

RECURSIVE RelationshipsText(_)
\* the loop "for (const rel of relationships)"
RelationshipsText(relationships) ==
  IF relationships = <<>> THEN <<>>
  ELSE LET rel == Head(relationships)
       IN  Text_relOpen \o rel.from_table \o Text_relArrow \o rel.to_table
             \o Text_relOn \o rel.join_condition \o Text_nl
             \o RelationshipsText(Tail(relationships))

\* buildContextText over a loaded schema
buildContextText(schema, models, columns, relationships) ==
  LET uniqueTables == Unique([k \in 1..Len(columns) |-> columns[k].table])
  IN  Text_header
        \o (IF Len(models) > 0 THEN Text_examples \o ModelsText(models) ELSE <<>>)
        \o (IF Len(uniqueTables) > 0
              THEN Text_tables \o TablesText(schema, uniqueTables, columns)
              ELSE <<>>)
        \o (IF Len(relationships) > 0
              THEN Text_relationships \o RelationshipsText(relationships) \o Text_nl
              ELSE <<>>)

\* estimateTokens: Math.ceil(text.length / 4)
estimateTokens(text) == (Len(text) + 3) \div 4

\* SemanticRetriever.initialize
RetrieverInitialize(st, available) ==
  Then(EmbedderInitialize(st, available), LAMBDA a :
  Then(IF a.raised THEN a ELSE QdrantInitialize(a, available), LAMBDA b :
    IF b.raised THEN b
    ELSE [loadSchemaRegistry(b) EXCEPT !.retriever.schema = TRUE]))

\* the default of buildContext's maxTokens
DefaultMaxTokens == 600

\* the tables of retrieved columns, each once, in order of appearance
TablesOf(columns) == Unique([k \in 1..Len(columns) |-> columns[k].table])

\* the RetrievedContext buildContext assembles
Context(models, columns, tableNames, relationships, contextText) ==
  [models |-> models, columns |-> columns,
   relationships |-> relationships, tables_involved |-> tableNames,
   context_text |-> contextText,
   token_estimate |-> estimateTokens(contextText)]

\* SemanticRetriever.buildContext at time now: st.outcome tells whether it
\* returned ("returned", the context in st.context) or threw ("raised")
buildContext(st, available, query, maxTokens, now) ==
  Then(getResult(st.cache, query, now), LAMBDA cachedContext :
  Then([Logged(st, "getResult") EXCEPT !.cache = cachedContext.cache], LAMBDA a :
    IF cachedContext.hit
      THEN [a EXCEPT !.context = cachedContext.data, !.outcome = "returned"]
    ELSE
  Then(IF a.retriever.schema THEN a ELSE RetrieverInitialize(a, available), LAMBDA b :
    IF b.raised THEN [b EXCEPT !.outcome = "raised"]
    ELSE
  Then(retrieveSemanticModels(b, available, query, 5, now), LAMBDA c :
  Then(filterModelsByIntent(c.models, detectQueryIntent(query)), LAMBDA models :
  Then(retrieveSchemaMetadata(c, available, query, 10, now), LAMBDA d :
  Then(TablesOf(d.columns), LAMBDA tableNames :
  Then(expandRelationships(registry, tableNames), LAMBDA relationships :
  Then(Context(models, d.columns, tableNames, relationships,
               buildContextText(registry, models, d.columns, relationships)),
       LAMBDA context :
         [Logged(d, "cacheResult") EXCEPT
            !.cache = cacheResult(d.cache, query, context, DEFAULT_TTL, now),
            !.context = context, !.outcome = "returned"])))))))))

----------------------------------------------------------------------------
(* Setup of the collections (semantic-retriever.ts, embedder.ts,           *)
(* qdrant-client.js)                                                       *)

\* the entries of SEMANTIC_MODELS the setup embeds, in the order of the array
SEMANTIC_MODELS ==
  <<[id |-> ModelId_account_count, text |-> ModelText_account_count,
     metadata |-> model_account_count],
    [id |-> ModelId_top_securities, text |-> ModelText_top_securities,
     metadata |-> model_top_securities],
    [id |-> ModelId_securities_by_sector, text |-> ModelText_securities_by_sector,
     metadata |-> model_securities_by_sector]>>

Numerals == <<"0", "1", "2", "3", "4", "5", "6", "7", "8", "9">>

\* parseInt(str, 10) of an id (ids carry no blank and no sign): the number
\* its leading digits spell, NaN when it starts with none
parseInt(str) ==
  LET lead == Least({k \in 1..Len(str) + 1 : k = Len(str) + 1 \/ str[k] \notin Digits}) - 1
      digit(c) == (CHOOSE d \in 1..10 : Numerals[d] = c) - 1
      RECURSIVE value(_)
      value(k) == IF k = 0 THEN 0 ELSE 10 * value(k - 1) + digit(str[k])
  IN  IF lead = 0 THEN [isNaN |-> TRUE, num |-> 0] ELSE [isNaN |-> FALSE, num |-> value(lead)]

\* a stringToId that gives every id without leading digits the number 0
stringToIdOrZero(str) == <<"number", parseInt(str).num>>

\* QdrantVectorDB.stringToId: the parsed number, or the string as it is
stringToId(str) ==
  IF ~parseInt(str).isNaN THEN <<"number", parseInt(str).num>> ELSE <<"string", str>>

\* the for loop of embedSemanticModels over the first n entries: an entry
\* whose embedText throws is logged and left out; failing holds the entries
\* the extractor fails on
RECURSIVE embedModels(_, _, _, _, _)
embedModels(st, available, failing, n, now) ==
  IF n = 0 THEN [st EXCEPT !.results = <<>>]
  ELSE Then(embedModels(st, available, failing, n - 1, now), LAMBDA a :
       Then(embedText(a, [available EXCEPT !.embedder = @ /\ n \notin failing],
                      SEMANTIC_MODELS[n].text, now), LAMBDA b :
         IF b.raised THEN [b EXCEPT !.raised = FALSE]
         ELSE [b EXCEPT !.results =
                 Append(@, [id |-> SEMANTIC_MODELS[n].id, text |-> SEMANTIC_MODELS[n].text,
                            embedding |-> b.vector,
                            metadata |-> SEMANTIC_MODELS[n].metadata])]))

\* SemanticEmbedder.embedSemanticModels: the EmbeddingResults are left in
\* st.results
embedSemanticModels(st, available, failing, now) ==
  Then(IF st.retriever.embedder THEN st ELSE EmbedderInitialize(st, available),
       LAMBDA a :
         IF a.raised THEN a
         ELSE embedModels(a, available, failing, Len(SEMANTIC_MODELS), now))

\* Qdrant puts a point into a collection: a point of the same id is replaced
Upsert(collection, point) ==
  IF \E k \in 1..Len(collection) : collection[k].id = point.id
    THEN [k \in 1..Len(collection) |->
            IF collection[k].id = point.id THEN point ELSE collection[k]]
    ELSE Append(collection, point)

RECURSIVE UpsertAll(_, _)
UpsertAll(collection, points) ==
  IF points = <<>> THEN collection
  ELSE Upsert(UpsertAll(collection, SubSeq(points, 1, Len(points) - 1)),
              points[Len(points)])

\* QdrantVectorDB.insertSemanticModels of the points initializeCollections
\* makes of the EmbeddingResults
insertSemanticModels(st, available, points) ==
  Then(IF st.retriever.vectorDB THEN st ELSE QdrantInitialize(st, available),
       LAMBDA a :
         IF a.raised THEN a
         ELSE IF available.qdrant
           THEN [Logged(a, "insertSemanticModels") EXCEPT
                   !.retriever.semantic_models =
                     UpsertAll(@, [k \in 1..Len(points) |->
                                     [id |-> stringToId(points[k].id),
                                      vector |-> points[k].vector,
                                      payload |-> points[k].payload]]),
                   !.outcome = "inserted"]
         ELSE [Logged(a, "insertSemanticModels") EXCEPT !.raised = TRUE])

\* SemanticRetriever.initializeCollections: the semantic models, then the
\* schema metadata and the statistics of the two collections
initializeCollections(st, available, failing, now) ==
  Then(embedSemanticModels(Logged(st, "embedSemanticModels"), available, failing, now),
       LAMBDA a :
  IF a.raised THEN a
  ELSE Then(insertSemanticModels(a, available,
                                 [k \in 1..Len(a.results) |->
                                    [id |-> a.results[k].id,
                                     vector |-> a.results[k].embedding,
                                     payload |-> a.results[k].metadata]]),
            LAMBDA b :
       IF b.raised THEN b
       ELSE Logged(Logged(Logged(b, "embedSchemaMetadata"), "insertSchemaMetadata"),
                   "getCollectionStats")))

\* the cosine score, in thousandths, of a point for a query vector: 1000 for
\* the vector itself (the vectors are normalized), and less for another one
Cosine(pointVector, vector, other) == IF pointVector = vector THEN 1000 ELSE other

\* QdrantVectorDB.searchSemanticModels over the points of the collection: the
\* topK points of the highest scores, best first; other is the score of the
\* points whose vector is not the query vector
searchPoints(st, available, vector, topK, other) ==
  Then(IF st.retriever.vectorDB THEN st ELSE QdrantInitialize(st, available),
       LAMBDA a :
         IF a.raised THEN a
         ELSE IF available.qdrant
           THEN [Logged(a, "searchSemanticModels") EXCEPT
                   !.results =
                     Take(SortByScore(
                            [k \in 1..Len(a.retriever.semantic_models) |->
                               [id |-> a.retriever.semantic_models[k].id,
                                score |-> Cosine(a.retriever.semantic_models[k].vector,
                                                 vector, other),
                                payload |-> a.retriever.semantic_models[k].payload]]),
                          topK)]
         ELSE [Logged(a, "searchSemanticModels") EXCEPT !.raised = TRUE])

----------------------------------------------------------------------------
(* Finance agent (finance-agent.js)                                        *)

\* the texts an LLM answer parses to in generateSQL: a valid statement, a
\* statement with an unknown column, a DELETE, and a statement the validator
\* passes although its aliased column does not exist
GeneratedStatements ==
  {Statement(S_SELECT, <<Item(<<>>, <<>>, S_ticker)>>,
             FromClause(S_FROM, S_securities, <<>>), <<>>),
   Statement(S_SELECT, <<Item(<<>>, <<>>, S_nope)>>,
             FromClause(S_FROM, S_securities, <<>>), <<>>),
   Statement(S_DELETE, <<>>, FromClause(S_FROM, S_securities, <<>>), <<>>),
   Statement(S_SELECT, <<Item(<<>>, S_a, S_nope)>>,
             FromClause(S_FROM, S_budgets, S_a), <<>>)}

GeneratedSQL == {Render(stmt) : stmt \in GeneratedStatements}

\* the second validation never rejects
SecondAttemptAccepted(validationResult) == FALSE

\* "if (!validationResult.valid)" after the first validation
FirstAttemptRejected(validationResult) == ~validationResult.valid

\* "if (!validationResult.valid) throw new ValidationException" after the
\* second validation
SecondAttemptRejected(validationResult) == ~validationResult.valid

\* some operation performed from the given position of the log on needed the
\* embedder model or Qdrant while it could not be reached, and threw
Failed(log, first, reachable) ==
  \E k \in first..Len(log) :
    \/ log[k] \in {"pipeline", "extractor"} /\ ~reachable.embedder
    \/ /\ log[k] \in {"connect", "searchSemanticModels", "searchSchemaMetadata"}
       /\ ~reachable.qdrant

\* the prompt of toolGenerateSQL: the user's query
firstPrompt(userQuery) == [query |-> userQuery, errors |-> <<>>]

\* a feedback prompt that leaves the errors out
feedbackPromptWithoutErrors(userQuery, validationErrors) ==
  [query |-> userQuery, errors |-> <<>>]

\* feedbackPrompt of toolRegenerateSQLWithFeedback: the user's query and one
\* line for each validation error
feedbackPrompt(userQuery, validationErrors) ==
  [query |-> userQuery, errors |-> validationErrors]

\* the locals of runFinanceAgent at its start, what the run has validated and
\* executed so far, where STEP 2 met an unreachable service, and the prompts
\* handed to generateSQL
AgentStart(userQuery, runs) ==
  [pc |-> "context", userQuery |-> userQuery, semanticContext |-> <<>>,
   contextType |-> "", currentSQL |-> <<>>, validationResult |-> <<>>,
   validated |-> <<>>, executed |-> <<>>, code |-> "", runs |-> runs,
   failure |-> "none", prompts |-> <<>>]

\* no run has started
AgentIdle == [AgentStart(<<>>, 0) EXCEPT !.pc = "idle"]

----------------------------------------------------------------------------
(* State                                                                   *)

VARIABLES
  vstmt,         \* the statement handed to the validator
  vsql,          \* its SQL text
  vresult,       \* the ValidationResult of validateQuery(vsql), or NoResult
  answers,       \* validateQuery over the loaded registry, on the generated texts
  inFlight,      \* the cachedSchema object and the validateQuery calls in flight
  now,           \* Date.now(), in milliseconds
  queryCache,    \* the process-wide QueryCache: resultCache and embeddingCache
  cachedSchema,  \* whether cachedSchema of the schema registry is filled
  retriever,     \* the SemanticRetriever in use: its schema, embedder, vectorDB
  available,     \* whether the embedder model and Qdrant can be reached
  lastCall,      \* the last call: its arguments, operations and outcome
  calls,         \* the number of calls so far
  agent          \* the run of runFinanceAgent: its position and locals

validatorVars == <<vstmt, vsql, vresult, answers, inFlight>>

retrieverVars == <<now, queryCache, cachedSchema, retriever, available>>

vars ==
  <<registry, vstmt, vsql, vresult, answers, inFlight, now, queryCache, cachedSchema, retriever, available,
    lastCall, calls, agent>>

NoResult == [valid |-> FALSE, errors |-> <<>>, warnings |-> <<>>,
             suggestions |-> <<>>, pending |-> TRUE]

NoStatement == Statement(<<>>, <<>>, NoFrom, <<>>)

\* no text has been handed to the validator of a run
NoAnswers == <<>>

\* the callers that have validateQuery calls in flight at the same time
Callers == {"first", "second"}

\* a call of validateQuery: where it is (idle, awaiting the promise of
\* loadSchemaRegistry, done), the tables its SQL text names, how often it
\* called loadSchemaRegistry, which build of the object its local schema
\* refers to, and what its existence checks found
NoCaller == [pc |-> "idle", tables |-> <<>>, loads |-> 0, schema |-> 0, seen |-> {}]

\* cachedSchema is null: no object, built zero times, and no call in flight
NothingInFlight ==
  [object |-> <<>>, built |-> 0, callers |-> [c \in Callers |-> NoCaller]]

\* the query texts buildContext is called with
Queries == {QueryText_top, QueryText_count, QueryText_empty}

\* a token budget below the default
SmallBudget == 50

Budgets == {DefaultMaxTokens, SmallBudget}

\* the number of buildContext calls of a behaviour
MaxCalls == 2

\* the number of runFinanceAgent runs of a behaviour
MaxRuns == 2

\* the time between two calls of buildContext: none, the time to live of a
\* cached context, and one millisecond more
Delays == {0, DEFAULT_TTL, DEFAULT_TTL + 1}

\* new QueryCache()
EmptyCache ==
  [resultCache |-> [hash \in Digests |-> NoResultEntry],
   embeddingCache |-> [hash \in Digests |-> NoEmbeddingEntry]]

Availabilities == [embedder : BOOLEAN, qdrant : BOOLEAN]

NoCall ==
  [query |-> <<>>, maxTokens |-> 0, outcome |-> "none", context |-> NoContext,
   log |-> <<>>]

\* the process at start: empty caches, no schema loaded, no retriever used
ProcessInit ==
  /\ registry = mockData
  /\ now = 0
  /\ queryCache = EmptyCache
  /\ cachedSchema = FALSE
  /\ retriever = NewSemanticRetriever
  /\ lastCall = NoCall
  /\ calls = 0
  /\ agent = AgentIdle

ValidatorInit ==
  /\ vstmt \in Statements
  /\ vsql = Render(vstmt)
  /\ vresult = NoResult
  /\ available = [embedder |-> TRUE, qdrant |-> TRUE]
  /\ ProcessInit
  /\ answers = NoAnswers
  /\ inFlight = NothingInFlight

\* one call validateQuery(vsql)
Validate ==
  /\ vresult = NoResult
  /\ vresult' = validateQuery(vsql)
  /\ UNCHANGED <<registry, vstmt, vsql, answers, inFlight, retrieverVars, lastCall, calls, agent>>

ValidatorNext == Validate

ValidatorSpec == ValidatorInit /\ [][ValidatorNext]_vars

----------------------------------------------------------------------------
(* validateQuery calls in flight at the same time                          *)

\* the tables the SQL text of a call names
CallerTables == {<<S_accounts, S_securities>>, <<S_users, S_ghosts>>, <<S_budgets>>}

\* the number of loadSchemaRegistry calls made by other callers
MaxLoads == 2

\* an object that got the first table only
FilledPartly(tableNames) == SubSeq(tableNames, 1, 1)

\* "cachedSchema = {}; for (const table of mockData) cachedSchema[...] = table":
\* the keys of the object when the loop has ended
Filled(tableNames) == tableNames

\* loadSchemaRegistry: it holds no await, so a call runs in one piece; the
\* object is built unless cachedSchema refers to one
LoadSchema(flight, cached) ==
  IF cached THEN flight
  ELSE [flight EXCEPT !.object = Filled(SchemaKeys), !.built = @ + 1]

\* the truthiness of schema[name] on the object as it is
ObjectHas(object, name) ==
  \/ \E k \in 1..Len(object) : object[k] = name
  \/ name \in ObjectPrototypeKeys

\* what one existence check of a call finds: the build its schema refers to,
\* the keys of the object at the check, and whether the table is there
Seen(flight, caller, name) ==
  [name |-> name, build |-> flight.callers[caller].schema,
   keys |-> flight.object, present |-> ObjectHas(flight.object, name)]

ConcurrentInit ==
  /\ registry = mockData
  /\ vstmt = NoStatement
  /\ vsql = <<>>
  /\ vresult = NoResult
  /\ answers = NoAnswers
  /\ inFlight = NothingInFlight
  /\ now = 0
  /\ queryCache = EmptyCache
  /\ cachedSchema = FALSE
  /\ retriever = NewSemanticRetriever
  /\ available = [embedder |-> TRUE, qdrant |-> TRUE]
  /\ lastCall = NoCall
  /\ calls = 0
  /\ agent = AgentIdle

\* validateQuery(sql) up to its await: loadSchemaRegistry() is called and runs
\* to its end, and the call waits for the promise
CallValidate(caller) ==
  /\ inFlight.callers[caller].pc = "idle"
  /\ \E tables \in CallerTables :
       \E loaded \in {LoadSchema(inFlight, cachedSchema)} :
         inFlight' = [loaded EXCEPT
                        !.callers[caller] =
                          [pc |-> "awaiting", tables |-> tables,
                           loads |-> 1, schema |-> loaded.built, seen |-> {}]]
  /\ cachedSchema' = TRUE
  /\ UNCHANGED <<registry, vstmt, vsql, vresult, answers, now, queryCache, retriever,
                 available, lastCall, calls, agent>>

\* validateQuery(sql) from its await on: it holds no other await, so every
\* existence check runs before any other call does
ResumeValidate(caller) ==
  /\ inFlight.callers[caller].pc = "awaiting"
  /\ inFlight' = [inFlight EXCEPT
                    !.callers[caller].pc = "done",
                    !.callers[caller].seen =
                      {Seen(inFlight, caller, inFlight.callers[caller].tables[k]) :
                         k \in 1..Len(inFlight.callers[caller].tables)}]
  /\ UNCHANGED <<registry, vstmt, vsql, vresult, answers, retrieverVars, lastCall,
                 calls, agent>>

\* loadSchemaRegistry() called by another caller (toolLoadSchema, the
\* retriever)
LoadAlone ==
  /\ calls < MaxLoads
  /\ inFlight' = LoadSchema(inFlight, cachedSchema)
  /\ cachedSchema' = TRUE
  /\ calls' = calls + 1
  /\ UNCHANGED <<registry, vstmt, vsql, vresult, answers, now, queryCache, retriever,
                 available, lastCall, agent>>

CallValidateSome == \E caller \in Callers : CallValidate(caller)

ResumeValidateSome == \E caller \in Callers : ResumeValidate(caller)

ConcurrentNext == CallValidateSome \/ ResumeValidateSome \/ LoadAlone

ConcurrentSpec == ConcurrentInit /\ [][ConcurrentNext]_vars

----------------------------------------------------------------------------
(* The retriever and its callers                                           *)

RetrieverInit ==
  /\ vstmt = NoStatement
  /\ vsql = <<>>
  /\ vresult = NoResult
  /\ available = [embedder |-> TRUE, qdrant |-> TRUE]
  /\ ProcessInit
  /\ answers = NoAnswers
  /\ inFlight = NothingInFlight

\* one call buildContext(query, maxTokens), made some time after the previous
\* one, on the retriever in use or on a new SemanticRetriever, while the
\* embedder model and Qdrant are reachable or not
Call(instance) ==
  /\ calls < MaxCalls
  /\ \E query \in Queries, maxTokens \in Budgets, reachable \in Availabilities,
        delay \in Delays :
       \E st \in {buildContext(CallState(queryCache, cachedSchema, instance),
                                 reachable, query, maxTokens, now + delay)} :
           /\ now' = now + delay
           /\ available' = reachable
           /\ queryCache' = st.cache
           /\ cachedSchema' = st.cachedSchema
           /\ retriever' = st.retriever
           /\ lastCall' = [query |-> query, maxTokens |-> maxTokens,
                           outcome |-> st.outcome, context |-> st.context,
                           log |-> st.log]
  /\ calls' = calls + 1
  /\ UNCHANGED <<registry, validatorVars, agent>>

\* the caller keeps its retriever
BuildContext == Call(retriever)

\* the caller makes a retriever for the call, as runFinanceAgent does
BuildContextOnNewRetriever == Call(NewSemanticRetriever)

RetrieverNext == BuildContext \/ BuildContextOnNewRetriever

RetrieverSpec == RetrieverInit /\ [][RetrieverNext]_vars

\* a process whose retriever was initialized at setup, as testOptimizations
\* and runE2ETest do before their first buildContext
InitializedInit ==
  /\ registry = mockData
  /\ vstmt = NoStatement
  /\ vsql = <<>>
  /\ vresult = NoResult
  /\ answers = NoAnswers
  /\ inFlight = NothingInFlight
  /\ now = 0
  /\ queryCache = EmptyCache
  /\ cachedSchema = TRUE
  /\ retriever = [schema |-> TRUE, embedder |-> TRUE, vectorDB |-> TRUE]
  /\ available = [embedder |-> TRUE, qdrant |-> TRUE]
  /\ lastCall = NoCall
  /\ calls = 0
  /\ agent = AgentIdle

\* buildContext calls on the initialized retriever, through outages
OutageSpec == InitializedInit /\ [][BuildContext]_vars

----------------------------------------------------------------------------
(* The cache and an embedder, called one operation at a time               *)

\* the texts the cache and the embedder are called with
Texts == {QueryText_top, CollidingText_A, CollidingText_B}

\* the ttl arguments of cacheResult: the default and a longer one
ResultTTLs == {DEFAULT_TTL, EMBEDDING_TTL}

\* the data cached for a text: one of two contexts
Data(text, estimate) ==
  [NoContext EXCEPT !.context_text = text, !.token_estimate = estimate]

\* the time that passes between two operations
Elapsed == {DEFAULT_TTL, DEFAULT_TTL + 1, EMBEDDING_TTL, EMBEDDING_TTL + 1}

\* the number of operations of a behaviour
MaxOperations == 3

\* what lastCall holds of an operation: its name and text, what it returned,
\* what it performed, whether it threw, and whether it was called on an
\* embedder made for it
NoOperation ==
  [name |-> "none", text |-> <<>>, hit |-> FALSE, data |-> NoContext,
   vector |-> <<>>, log |-> <<>>, raised |-> FALSE, onNew |-> FALSE]

CacheInit ==
  /\ registry = mockData
  /\ vstmt = NoStatement
  /\ vsql = <<>>
  /\ vresult = NoResult
  /\ now = 0
  /\ queryCache = EmptyCache
  /\ cachedSchema = FALSE
  /\ retriever = NewSemanticRetriever
  /\ available = [embedder |-> TRUE, qdrant |-> TRUE]
  /\ lastCall = NoOperation
  /\ calls = 0
  /\ agent = AgentIdle
  /\ answers = NoAnswers
  /\ inFlight = NothingInFlight

\* queryCache.cacheResult(text, data, ttl)
CacheResultCall ==
  /\ calls < MaxOperations
  /\ \E text \in Texts, ttl \in ResultTTLs, estimate \in 1..2 :
       /\ queryCache' = cacheResult(queryCache, text, Data(text, estimate), ttl, now)
       /\ lastCall' = [NoOperation EXCEPT !.name = "cacheResult", !.text = text,
                                          !.data = Data(text, estimate)]
  /\ calls' = calls + 1
  /\ UNCHANGED <<registry, validatorVars, now, cachedSchema, retriever, available, agent>>

\* queryCache.getResult(text)
GetResultCall ==
  /\ calls < MaxOperations
  /\ \E text \in Texts :
       \E g \in {getResult(queryCache, text, now)} :
         /\ queryCache' = g.cache
         /\ lastCall' = [NoOperation EXCEPT !.name = "getResult", !.text = text,
                                            !.hit = g.hit, !.data = g.data]
  /\ calls' = calls + 1
  /\ UNCHANGED <<registry, validatorVars, now, cachedSchema, retriever, available, agent>>

\* embedder.embedText(text) on an embedder, while the model can or cannot be
\* loaded and run
EmbedTextCall(instance, made) ==
  /\ calls < MaxOperations
  /\ \E text \in Texts, loadable \in BOOLEAN :
       \E st \in {embedText(CallState(queryCache, cachedSchema, instance),
                            [available EXCEPT !.embedder = loadable], text, now)} :
         /\ available' = [available EXCEPT !.embedder = loadable]
         /\ queryCache' = st.cache
         /\ retriever' = st.retriever
         /\ lastCall' = [NoOperation EXCEPT !.name = "embedText", !.text = text,
                                            !.vector = st.vector, !.log = st.log,
                                            !.raised = st.raised, !.onNew = made]
  /\ calls' = calls + 1
  /\ UNCHANGED <<registry, validatorVars, now, cachedSchema, agent>>

\* the caller keeps its embedder
EmbedText == EmbedTextCall(retriever, FALSE)

\* the caller makes an embedder for the call
EmbedTextOnNewEmbedder == EmbedTextCall(NewSemanticRetriever, TRUE)

\* time passes
Elapse ==
  /\ calls < MaxOperations
  /\ \E delay \in Elapsed : now' = now + delay
  /\ calls' = calls + 1
  /\ UNCHANGED <<registry, validatorVars, queryCache, cachedSchema, retriever,
                 available, lastCall, agent>>

CacheNext ==
  \/ CacheResultCall
  \/ GetResultCall
  \/ EmbedText
  \/ EmbedTextOnNewEmbedder
  \/ Elapse

CacheSpec == CacheInit /\ [][CacheNext]_vars

----------------------------------------------------------------------------
(* initialize and embedText calls of one embedder in flight at the same    *)
(* time                                                                    *)

\* the number of calls started in a behaviour
MaxStarts == 3

\* a call on the embedder: where it is (idle, loading: awaiting pipeline(),
\* done, failed), which method it is, and the text of an embedText
NoEmbedderCall == [pc |-> "idle", method |-> "none", text |-> <<>>]

\* an embedder nothing was called on: pipeline() was never called and no
\* model was loaded
NoLoad ==
  [pipelines |-> 0, loaded |-> 0, callers |-> [c \in Callers |-> NoEmbedderCall]]

EmbedderInit ==
  /\ registry = mockData
  /\ vstmt = NoStatement
  /\ vsql = <<>>
  /\ vresult = NoResult
  /\ answers = NoAnswers
  /\ inFlight = NoLoad
  /\ now = 0
  /\ queryCache = EmptyCache
  /\ cachedSchema = FALSE
  /\ retriever = NewSemanticRetriever
  /\ available = [embedder |-> TRUE, qdrant |-> TRUE]
  /\ lastCall = NoOperation
  /\ calls = 0
  /\ agent = AgentIdle

\* initialize() up to its await: a no-op when initialized is set, the call of
\* pipeline() otherwise
StartInitialize(caller) ==
  /\ calls < MaxStarts
  /\ inFlight.callers[caller].pc = "idle"
  /\ inFlight' =
       IF retriever.embedder
         THEN [inFlight EXCEPT !.callers[caller] =
                 [pc |-> "done", method |-> "initialize", text |-> <<>>]]
         ELSE [inFlight EXCEPT !.pipelines = @ + 1,
                               !.callers[caller] =
                                 [pc |-> "loading", method |-> "initialize", text |-> <<>>]]
  /\ calls' = calls + 1
  /\ UNCHANGED <<registry, vstmt, vsql, vresult, answers, retrieverVars, lastCall, agent>>

\* embedText(text) up to its first await: initialize() when initialized is
\* not set, the cache and the extractor otherwise
StartEmbedText(caller) ==
  /\ calls < MaxStarts
  /\ inFlight.callers[caller].pc = "idle"
  /\ \E text \in {QueryText_top, QueryText_count} :
       IF retriever.embedder
         THEN \E st \in {embedText(CallState(queryCache, cachedSchema, retriever),
                                   available, text, now)} :
                /\ queryCache' = st.cache
                /\ inFlight' = [inFlight EXCEPT !.callers[caller] =
                                  [pc |-> IF st.raised THEN "failed" ELSE "done",
                                   method |-> "embedText", text |-> text]]
         ELSE /\ queryCache' = queryCache
              /\ inFlight' = [inFlight EXCEPT !.pipelines = @ + 1,
                                              !.callers[caller] =
                                                [pc |-> "loading", method |-> "embedText",
                                                 text |-> text]]
  /\ calls' = calls + 1
  /\ UNCHANGED <<registry, vstmt, vsql, vresult, answers, now, cachedSchema, retriever,
                 available, lastCall, agent>>

\* pipeline() settles for a call: the model is loaded and initialized is set,
\* or the call throws; an embedText goes on to the cache and the extractor
PipelineSettles(caller) ==
  /\ inFlight.callers[caller].pc = "loading"
  /\ \E loadable \in BOOLEAN :
       /\ available' = [available EXCEPT !.embedder = loadable]
       /\ IF ~loadable
            THEN /\ inFlight' = [inFlight EXCEPT !.callers[caller].pc = "failed"]
                 /\ UNCHANGED <<retriever, queryCache>>
          ELSE /\ retriever' = [retriever EXCEPT !.embedder = TRUE]
               /\ IF inFlight.callers[caller].method = "initialize"
                    THEN /\ inFlight' = [inFlight EXCEPT !.loaded = @ + 1,
                                                         !.callers[caller].pc = "done"]
                         /\ queryCache' = queryCache
                    ELSE \E st \in {embedText(CallState(queryCache, cachedSchema,
                                                        [retriever EXCEPT !.embedder = TRUE]),
                                              [available EXCEPT !.embedder = TRUE],
                                              inFlight.callers[caller].text, now)} :
                           /\ queryCache' = st.cache
                           /\ inFlight' = [inFlight EXCEPT !.loaded = @ + 1,
                                                           !.callers[caller].pc = "done"]
  /\ UNCHANGED <<registry, vstmt, vsql, vresult, answers, now, cachedSchema, lastCall,
                 calls, agent>>

\* the caller takes the result or the exception of its call
Settled(caller) ==
  /\ inFlight.callers[caller].pc \in {"done", "failed"}
  /\ inFlight' = [inFlight EXCEPT !.callers[caller] = NoEmbedderCall]
  /\ UNCHANGED <<registry, vstmt, vsql, vresult, answers, retrieverVars, lastCall,
                 calls, agent>>

StartInitializeSome == \E caller \in Callers : StartInitialize(caller)

StartEmbedTextSome == \E caller \in Callers : StartEmbedText(caller)

PipelineSettlesSome == \E caller \in Callers : PipelineSettles(caller)

SettledSome == \E caller \in Callers : Settled(caller)

EmbedderNext ==
  \/ StartInitializeSome
  \/ StartEmbedTextSome
  \/ PipelineSettlesSome
  \/ SettledSome

EmbedderSpec == EmbedderInit /\ [][EmbedderNext]_vars

----------------------------------------------------------------------------
(* expandRelationships, called on lists of seed tables                     *)

\* the tables a seed list can name: the tables of the registry, and one the
\* registry does not hold
SeedTables == SchemaKeys \o <<S_ghosts>>

\* the lists of seed tables: at most two tables
SeedLists ==
  {<<>>} \cup {<<SeedTables[i]>> : i \in 1..Len(SeedTables)}
         \cup {<<SeedTables[i], SeedTables[j]>> : i, j \in 1..Len(SeedTables)}

NoExpansion == [tableNames |-> <<>>, relationships |-> <<>>]

ExpandInit ==
  /\ registry = mockData
  /\ vstmt = NoStatement
  /\ vsql = <<>>
  /\ vresult = NoResult
  /\ now = 0
  /\ queryCache = EmptyCache
  /\ cachedSchema = TRUE
  /\ retriever = [schema |-> TRUE, embedder |-> TRUE, vectorDB |-> TRUE]
  /\ available = [embedder |-> TRUE, qdrant |-> TRUE]
  /\ lastCall = NoExpansion
  /\ calls = 0
  /\ agent = AgentIdle
  /\ answers = NoAnswers
  /\ inFlight = NothingInFlight

\* expandRelationships(tableNames) on a retriever that has its schema
Expand ==
  /\ \E tableNames \in SeedLists :
       lastCall' = [tableNames |-> tableNames,
                    relationships |-> expandRelationships(registry, tableNames)]
  /\ UNCHANGED <<registry, validatorVars, retrieverVars, calls, agent>>

ExpandSpec == ExpandInit /\ [][Expand]_vars

----------------------------------------------------------------------------
(* filterModelsByIntent, called on lists of retrieved models               *)

\* the three patterns as retrieveSemanticModels returns them
RetrievedModels ==
  {RetrievedModel(ModelPoint("model_account_count", model_account_count, 764)),
   RetrievedModel(ModelPoint("model_top_securities", model_top_securities, 712)),
   RetrievedModel(ModelPoint("model_securities_by_sector", model_securities_by_sector, 548))}

\* the lists of retrieved models: each pattern at most once
ModelLists ==
  {list \in UNION {[1..n -> RetrievedModels] : n \in 0..3} :
     \A i, j \in DOMAIN list : i # j => list[i] # list[j]}

\* the values of QueryIntent
Intents == DOMAIN intentOperations

NoFilter == [models |-> <<>>, intent |-> "UNKNOWN", filtered |-> <<>>]

FilterInit ==
  /\ registry = mockData
  /\ vstmt = NoStatement
  /\ vsql = <<>>
  /\ vresult = NoResult
  /\ now = 0
  /\ queryCache = EmptyCache
  /\ cachedSchema = TRUE
  /\ retriever = [schema |-> TRUE, embedder |-> TRUE, vectorDB |-> TRUE]
  /\ available = [embedder |-> TRUE, qdrant |-> TRUE]
  /\ lastCall = NoFilter
  /\ calls = 0
  /\ agent = AgentIdle
  /\ answers = NoAnswers
  /\ inFlight = NothingInFlight

\* models = filterModelsByIntent(models, intent)
Filter ==
  /\ \E models \in ModelLists, intent \in Intents :
       lastCall' = [models |-> models, intent |-> intent,
                    filtered |-> filterModelsByIntent(models, intent)]
  /\ UNCHANGED <<registry, validatorVars, retrieverVars, calls, agent>>

FilterSpec == FilterInit /\ [][Filter]_vars

----------------------------------------------------------------------------
(* detectQueryIntent, called on query texts                                *)

\* the phrases detectQueryIntent looks for, in the order of its tests
Phrases ==
  <<Phrase_how_many, Phrase_count, Phrase_total_number, Phrase_join, Phrase_relate,
    Phrase_associate, Phrase_with, Phrase_their, Phrase_month, Phrase_year, Phrase_date,
    Phrase_timeline, Phrase_trend, Phrase_over_time, Phrase_top, Phrase_bottom,
    Phrase_rank, Phrase_highest, Phrase_lowest, Phrase_best, Phrase_worst,
    Phrase_average, Phrase_sum, Phrase_total, Phrase_breakdown, Phrase_distribution,
    Phrase_analysis_by, Phrase_where, Phrase_filter, Phrase_specific,
    Phrase_over_budget, Phrase_exceeds>>

\* a text with its first letter in upper case
Capitalized(text) == <<ToUpper(Head(text))>> \o Tail(text)

\* the sample queries of the authors
SampleQueries ==
  {QueryText_top, QueryText_count, QueryText_empty, QueryText_top_customers,
   QueryText_top_accounts, QueryText_how_many_customers, QueryText_with_conversations,
   QueryText_by_month, QueryText_goals}

\* the query texts classified: the samples, each phrase alone, and each pair of
\* phrases with the first capitalized and the second in upper case
IntentQueries ==
  SampleQueries
    \cup {Phrases[i] : i \in 1..Len(Phrases)}
    \cup {Capitalized(Phrases[i]) \o <<" ">> \o UpperCase(Phrases[j]) :
            i, j \in 1..Len(Phrases)}

\* what lastCall holds of a classification: the text, its intent, and the
\* intents of the text in upper and in lower case
NoIntent == [query |-> <<>>, intent |-> "none", upper |-> "none", lower |-> "none"]

IntentInit ==
  /\ registry = mockData
  /\ vstmt = NoStatement
  /\ vsql = <<>>
  /\ vresult = NoResult
  /\ now = 0
  /\ queryCache = EmptyCache
  /\ cachedSchema = TRUE
  /\ retriever = [schema |-> TRUE, embedder |-> TRUE, vectorDB |-> TRUE]
  /\ available = [embedder |-> TRUE, qdrant |-> TRUE]
  /\ lastCall \in {[NoIntent EXCEPT !.query = query] : query \in IntentQueries}
  /\ calls = 0
  /\ agent = AgentIdle
  /\ answers = NoAnswers
  /\ inFlight = NothingInFlight

\* detectQueryIntent(query), and the same on the text in the other cases
DetectQueryIntent ==
  /\ lastCall.intent = "none"
  /\ lastCall' = [lastCall EXCEPT
                    !.intent = detectQueryIntent(lastCall.query),
                    !.upper = detectQueryIntent(UpperCase(lastCall.query)),
                    !.lower = detectQueryIntent(LowerCase(lastCall.query))]
  /\ UNCHANGED <<registry, validatorVars, retrieverVars, calls, agent>>

IntentSpec == IntentInit /\ [][DetectQueryIntent]_vars

----------------------------------------------------------------------------
(* initializeCollections and searches of semantic_models                   *)

\* the number of initializeCollections calls of a behaviour
MaxSetups == 2

\* the scores of the points whose vector is not the query vector
OtherScores == {0, 999}

\* the entries the extractor fails on during a setup: none or one
Failing == {{}} \cup {{k} : k \in 1..Len(SEMANTIC_MODELS)}

\* the limits of a search: one point, and the default of five
TopKs == {1, 5}

\* what lastCall holds of a setup or a search: its name, the entries of
\* SEMANTIC_MODELS inserted so far, the entry whose text was searched, the
\* points returned, what it performed and whether it threw
NoSetup ==
  [name |-> "none", inserted |-> {}, model |-> 0, results |-> <<>>,
   log |-> <<>>, raised |-> FALSE]

\* a retriever whose semantic_models collection is empty
SetupInit ==
  /\ registry = mockData
  /\ vstmt = NoStatement
  /\ vsql = <<>>
  /\ vresult = NoResult
  /\ now = 0
  /\ queryCache = EmptyCache
  /\ cachedSchema = FALSE
  /\ retriever = [schema |-> FALSE, embedder |-> FALSE, vectorDB |-> FALSE,
                  semantic_models |-> <<>>]
  /\ available = [embedder |-> TRUE, qdrant |-> TRUE]
  /\ lastCall = NoSetup
  /\ calls = 0
  /\ agent = AgentIdle
  /\ answers = NoAnswers
  /\ inFlight = NothingInFlight

\* retriever.initializeCollections(), some time after the last call, while
\* the services can or cannot be reached
InitializeCollections ==
  /\ calls < MaxSetups
  /\ \E reach \in Availabilities, failing \in Failing, delay \in {0, EMBEDDING_TTL + 1} :
       \E st \in {initializeCollections(CallState(queryCache, cachedSchema, retriever),
                                        reach, failing, now + delay)} :
         /\ now' = now + delay
         /\ available' = reach
         /\ queryCache' = st.cache
         /\ retriever' = st.retriever
         /\ lastCall' =
              [NoSetup EXCEPT
                 !.name = "initializeCollections",
                 !.inserted =
                   IF st.outcome = "inserted"
                     THEN lastCall.inserted \cup
                            {k \in 1..Len(SEMANTIC_MODELS) :
                               \E i \in 1..Len(st.results) :
                                 st.results[i].id = SEMANTIC_MODELS[k].id}
                     ELSE lastCall.inserted,
                 !.log = st.log, !.raised = st.raised]
  /\ calls' = calls + 1
  /\ UNCHANGED <<registry, validatorVars, cachedSchema, agent>>

\* a search of semantic_models with the embedding of the text of an entry
SearchOwnText ==
  /\ \E model \in 1..Len(SEMANTIC_MODELS), topK \in TopKs, reach \in Availabilities,
        other \in OtherScores :
       \E embedded \in {embedText(CallState(queryCache, cachedSchema, retriever), reach,
                                  SEMANTIC_MODELS[model].text, now)} :
         \E st \in {IF embedded.raised THEN embedded
                    ELSE searchPoints(embedded, reach, embedded.vector, topK, other)} :
           /\ available' = reach
           /\ queryCache' = st.cache
           /\ retriever' = st.retriever
           /\ lastCall' = [lastCall EXCEPT !.name = "searchSemanticModels",
                                           !.model = model, !.results = st.results,
                                           !.log = st.log, !.raised = st.raised]
  /\ UNCHANGED <<registry, validatorVars, now, cachedSchema, calls, agent>>

SetupNext ==
  \/ InitializeCollections
  \/ SearchOwnText

SetupSpec == SetupInit /\ [][SetupNext]_vars

----------------------------------------------------------------------------
(* runFinanceAgent                                                         *)

AgentInit ==
  /\ vstmt = NoStatement
  /\ vsql = <<>>
  /\ vresult = NoResult
  /\ available \in Availabilities
  /\ ProcessInit
  /\ answers = [sql \in GeneratedSQL |-> validateQuery(sql)]
  /\ inFlight = NothingInFlight

\* runFinanceAgent(userQuery) up to STEP 1: a retriever of its own and
\* toolLoadSchema
StartRun ==
  /\ agent.pc \in {"idle", "done", "failed"}
  /\ agent.runs < MaxRuns
  /\ \E userQuery \in Queries : agent' = AgentStart(userQuery, agent.runs + 1)
  /\ retriever' = NewSemanticRetriever
  /\ cachedSchema' = TRUE
  /\ UNCHANGED <<registry, now, queryCache, available, lastCall, calls, validatorVars>>

\* STEP 2: retriever.initialize() and buildContext(userQuery) in a try block
\* whose catch leaves the semantic context empty; the embedder and Qdrant may
\* become unreachable, or reachable, between the two calls
GetSemanticContext ==
  /\ agent.pc = "context"
  /\ \E later \in Availabilities :
     \E a \in {RetrieverInitialize(CallState(queryCache, cachedSchema, retriever),
                                      available)} :
       \E b \in {IF a.raised THEN a
                 ELSE buildContext(a, later, agent.userQuery, DefaultMaxTokens,
                                   now)} :
         /\ available' = (IF a.raised THEN available ELSE later)
         /\ queryCache' = b.cache
         /\ cachedSchema' = b.cachedSchema
         /\ retriever' = b.retriever
         /\ agent' = [agent EXCEPT
                        !.semanticContext =
                          IF a.raised \/ b.outcome = "raised" THEN <<>>
                          ELSE b.context.context_text,
                        !.failure =
                          IF a.raised THEN "initialize"
                          ELSE IF Failed(b.log, Len(a.log) + 1, later) THEN "search"
                          ELSE "none",
                        !.pc = "generate"]
  /\ UNCHANGED <<registry, now, lastCall, calls, validatorVars>>

\* toolGenerateSQL and toolRegenerateSQLWithFeedback: generateSQL takes the
\* prompt and the semantic context, or the core schema description when the
\* context is empty, and answers with a SQL text, or throws
Generate(from, to, prompt) ==
  /\ agent.pc = from
  /\ \/ \E sql \in GeneratedSQL :
          agent' = [agent EXCEPT
                      !.contextType = IF agent.semanticContext = <<>> THEN "core"
                                      ELSE "semantic",
                      !.prompts = Append(@, prompt),
                      !.currentSQL = sql, !.pc = to]
     \/ agent' = [agent EXCEPT !.prompts = Append(@, prompt),
                               !.pc = "failed", !.code = "SQL_GENERATION_FAILED"]
  /\ UNCHANGED <<registry, retrieverVars, lastCall, calls, validatorVars>>

\* STEP 3
GenerateSQL == Generate("generate", "validate", firstPrompt(agent.userQuery))

\* STEP 4: toolValidateQuery(currentSQL, 1) and the branch on its result
ValidateFirst ==
  /\ agent.pc = "validate"
  /\ \E validationResult \in {answers[agent.currentSQL]} :
         agent' = [agent EXCEPT
                     !.validationResult = validationResult,
                     !.validated = Append(@, [sql |-> agent.currentSQL,
                                              valid |-> validationResult.valid]),
                     !.pc = IF FirstAttemptRejected(validationResult)
                              THEN "regenerate" ELSE "execute"]
  /\ UNCHANGED <<registry, retrieverVars, lastCall, calls, validatorVars>>

\* STEP 5
RegenerateSQL ==
  Generate("regenerate", "revalidate",
           feedbackPrompt(agent.userQuery, agent.validationResult.errors))

\* STEP 6: toolValidateQuery(currentSQL, 2); an invalid result throws the
\* ValidationException
ValidateSecond ==
  /\ agent.pc = "revalidate"
  /\ \E validationResult \in {answers[agent.currentSQL]} :
         agent' = [agent EXCEPT
                     !.validationResult = validationResult,
                     !.validated = Append(@, [sql |-> agent.currentSQL,
                                              valid |-> validationResult.valid]),
                     !.pc = IF SecondAttemptRejected(validationResult)
                              THEN "failed" ELSE "execute",
                     !.code = IF SecondAttemptRejected(validationResult)
                                THEN "VALIDATION_FAILED" ELSE @]
  /\ UNCHANGED <<registry, retrieverVars, lastCall, calls, validatorVars>>

\* STEP 7: toolExecuteQuery(currentSQL), which hands the text to the database
\* unless no connection string is configured, and the formatting of the rows
ExecuteQuery ==
  /\ agent.pc = "execute"
  /\ \/ agent' = [agent EXCEPT !.pc = "failed", !.code = "EXECUTION_FAILED"]
     \/ \E rows \in {"some", "none", "error"} :
          agent' = [agent EXCEPT
                      !.executed = Append(@, agent.currentSQL),
                      !.pc = IF rows = "some" THEN "done" ELSE "failed",
                      !.code = CASE rows = "some" -> ""
                                 [] rows = "none" -> "NO_RESULTS"
                                 [] rows = "error" -> "EXECUTION_FAILED"]
  /\ UNCHANGED <<registry, retrieverVars, lastCall, calls, validatorVars>>

AgentNext ==
  \/ StartRun \/ GetSemanticContext \/ GenerateSQL \/ ValidateFirst
  \/ RegenerateSQL \/ ValidateSecond \/ ExecuteQuery

AgentSpec == AgentInit /\ [][AgentNext]_vars

\* The steps of a run are continuations of awaited promises: once the LLM,
\* the validator or the database has answered or thrown, the event loop runs
\* the next step.
AgentLiveSpec ==
  /\ AgentSpec
  /\ WF_vars(GetSemanticContext)
  /\ WF_vars(GenerateSQL)
  /\ WF_vars(ValidateFirst)
  /\ WF_vars(RegenerateSQL)
  /\ WF_vars(ValidateSecond)
  /\ WF_vars(ExecuteQuery)

----------------------------------------------------------------------------
(* Claims about validateQuery                                              *)

Validated == vresult # NoResult

ErrorSet == {vresult.errors[k] : k \in 1..Len(vresult.errors)}

\* the maximal runs of word characters of a text
WordRuns(s) ==
  {Slice(s, i, WordEnd(s, i) - 1) : i \in {j \in 1..Len(s) : IsWAt(s, j) /\ ~IsWAt(s, j - 1)}}

\* the text holds the keyword as a whole word, in any letter case
ContainsWholeWord(s, keyword) == \E w \in WordRuns(s) : UpperCase(w) = keyword

DangerousWords == {dangerousKeywords[k] : k \in 1..Len(dangerousKeywords)}

\* C2: every SQL text that holds DELETE, DROP, TRUNCATE, ALTER, GRANT or REVOKE
\* as a whole word, in any letter case and at any position, is invalid with a
\* hard error that names the keyword.
C2_DangerousKeywordIsNamedError ==
  Validated =>
    \A keyword \in DangerousWords :
      ContainsWholeWord(vsql, keyword) =>
        /\ ~vresult.valid
        /\ \E e \in ErrorSet : e.kind = "dangerous" /\ e.column = keyword

\* C4: the result is valid if and only if its errors list is empty, whatever
\* its warnings and suggestions hold.
C4_ValidIffNoErrors ==
  Validated => (vresult.valid <=> vresult.errors = <<>>)

\* C4 witness: a valid result that carries a warning, as MIN(budget_month)
\* over budgets gives
C4_ValidWithWarning ==
  Validated /\ vresult.valid /\ vresult.errors = <<>> /\ vresult.warnings # <<>>

SelectVerbs == {S_SELECT, S_select, S_Select}

HasFromClause(stmt) == stmt.from.kw \in {S_FROM, S_from}

\* the tables a statement names in its FROM and JOIN clauses
NamedTables(stmt) ==
  (IF HasFromClause(stmt) THEN {stmt.from.table} ELSE {})
    \cup (IF stmt.tail = TailJoin THEN {S_accounts} ELSE {})

\* the table that owns a select-list item: the aliased table when the item is
\* qualified by the declared alias, the named table when it is qualified by
\* the table's name, the sole table when it is unqualified and the statement
\* has no JOIN; <<>> when the owner is not determined
Owner(stmt, item) ==
  IF ~HasFromClause(stmt) THEN <<>>
  ELSE IF item.qual # <<>> /\ item.qual = stmt.from.alias THEN stmt.from.table
  ELSE IF item.qual # <<>> /\ item.qual = stmt.from.table THEN stmt.from.table
  ELSE IF item.qual = <<>> /\ stmt.tail # TailJoin THEN stmt.from.table
  ELSE <<>>

StatementItems == {vstmt.items[k] : k \in 1..Len(vstmt.items)}

\* C5: in a SELECT statement, a select-list column (bare or inside an
\* aggregate call) that does not exist on its owning table, the owner found
\* through the alias or as the sole table, gives a hard error that names the
\* column and lists the table's columns, and the statement is invalid.
C5_MissingColumnIsError ==
  (Validated /\ vstmt.verb \in SelectVerbs) =>
    \A item \in StatementItems :
      LET owner == Owner(vstmt, item)
      IN  (/\ owner \in DOMAIN registry
           /\ item.col # S_star
           /\ item.col \notin DOMAIN registry[owner].columns)
          => /\ ~vresult.valid
             /\ \E e \in ErrorSet :
                  /\ e.kind = "column_missing"
                  /\ e.column = item.col
                  /\ e.available = registry[owner].names

\* C6: every table named in a FROM or JOIN clause that is not in the Schema
\* Registry gives a hard error, a statement that names no table gives the
\* missing-FROM hard error, and in both cases the result is invalid.
C6_MissingTableIsError ==
  Validated =>
    /\ \A t \in NamedTables(vstmt) :
         t \notin DOMAIN registry =>
           /\ ~vresult.valid
           /\ \E e \in ErrorSet : e.kind = "table_missing" /\ e.table = t
    /\ NamedTables(vstmt) = {} =>
         /\ ~vresult.valid
         /\ \E e \in ErrorSet : e.kind = "no_tables"

\* the statement names a table that schema[name] finds on Object.prototype and
\* a column whose targetTable (its qualifier, or the only table) is that
\* table: validateColumnExists then reads a property of undefined
ReadsUndefined(stmt) ==
  /\ stmt.verb \in SelectVerbs
  /\ HasFromClause(stmt)
  /\ stmt.from.table \in ObjectPrototypeKeys
  /\ \E k \in 1..Len(stmt.items) :
       /\ stmt.items[k].col # S_star
       /\ \/ stmt.items[k].qual = <<>> /\ stmt.tail # TailJoin
          \/ stmt.items[k].qual = stmt.from.table

\* C15: validateQuery returns a ValidationResult for every SQL text, and when
\* a check inside it throws, the result is invalid and its errors are the one
\* error made of the exception.
C15_AlwaysAResult ==
  Validated =>
    /\ DOMAIN vresult = {"valid", "errors", "warnings", "suggestions"}
    /\ vresult.valid \in BOOLEAN
    /\ ReadsUndefined(vstmt) =>
         /\ ~vresult.valid
         /\ Len(vresult.errors) = 1
         /\ vresult.errors[1].kind = "validation_error"

\* C15 witness: a statement whose column check threw has its result
C15_ThrownIsReported ==
  /\ Validated
  /\ ReadsUndefined(vstmt)
  /\ \E e \in ErrorSet : e.kind = "validation_error"

\* the aggregation function does not fit the column's declared type
Incompatible(type, fn) ==
  \/ type = "text" /\ fn \notin {S_COUNT, S_DISTINCT}
  \/ type = "date" /\ fn \notin {S_MIN, S_MAX, S_COUNT}
  \/ type = "uuid" /\ fn \notin {S_COUNT, S_DISTINCT}

AggregationErrorKinds == {"agg_text", "agg_date", "agg_uuid", "agg_star"}

\* C7: an aggregation function applied to a select-list column whose declared
\* type it does not fit gives a hard error; COUNT(*) gives no aggregation
\* error and neither does SUM over a numeric column.
C7_IncompatibleAggregationIsError ==
  (Validated /\ vstmt.verb \in SelectVerbs) =>
    \A item \in StatementItems :
      LET owner == Owner(vstmt, item)
          fn == UpperCase(item.fn)
      IN  /\ (/\ item.fn # <<>>
              /\ owner \in DOMAIN registry
              /\ item.col \in DOMAIN registry[owner].columns
              /\ Incompatible(registry[owner].columns[item.col].type, fn))
             => /\ ~vresult.valid
                /\ \E e \in ErrorSet :
                     /\ e.kind \in AggregationErrorKinds
                     /\ e.fn = fn /\ e.column = item.col
          /\ (fn = S_COUNT /\ item.col = S_star)
             => ~ \E e \in ErrorSet : e.kind \in AggregationErrorKinds
          /\ (/\ fn = S_SUM
              /\ owner \in DOMAIN registry
              /\ item.col \in DOMAIN registry[owner].columns
              /\ registry[owner].columns[item.col].type = "numeric")
             => ~ \E e \in ErrorSet :
                    e.kind \in AggregationErrorKinds /\ e.column = item.col

\* C25: a qualifier that is an alias declared in the FROM clause of the
\* statement is not flagged: no suggestion asks to verify it.
C25_DeclaredAliasNotFlagged ==
  (vresult # NoResult /\ vstmt.from.alias # <<>>)
    => ~\E k \in 1..Len(vresult.suggestions) :
          /\ vresult.suggestions[k].kind = "verify_qualifier"
          /\ vresult.suggestions[k].table = vstmt.from.alias

\* C29: a statement that writes SELECT in lower or mixed case gets the valid
\* flag and the errors of the same statement with SELECT in upper case.
C29_VerbCaseIrrelevant ==
  (vresult # NoResult /\ vstmt.verb \in {S_select, S_Select})
    => \E upper \in {validateQuery(Render([vstmt EXCEPT !.verb = S_SELECT]))} :
         /\ vresult.valid = upper.valid
         /\ vresult.errors = upper.errors

----------------------------------------------------------------------------
(* Claims about validateQuery calls in flight at the same time             *)

\* C20: the existence checks of one validateQuery call all read one snapshot
\* of the registry.  The call loads the registry once, the object is built at
\* most once whatever the interleaving of the calls, and every check of a call
\* finds the object of that one build with every table of the registry in it.
C20_OneSnapshotPerValidation ==
  /\ inFlight.built <= 1
  /\ \A caller \in Callers :
       inFlight.callers[caller].pc # "idle" =>
         /\ inFlight.callers[caller].loads = 1
         /\ inFlight.callers[caller].schema = 1
         /\ \A check \in inFlight.callers[caller].seen :
              /\ check.build = 1
              /\ check.keys = SchemaKeys
              /\ check.present
                   = (check.name \in DOMAIN registry \cup ObjectPrototypeKeys)

\* C20 witness: both calls have made their checks, and another caller has
\* called loadSchemaRegistry as well
C20_BothCallsChecked ==
  /\ \A caller \in Callers :
       /\ inFlight.callers[caller].pc = "done"
       /\ inFlight.callers[caller].seen # {}
  /\ calls = 1

----------------------------------------------------------------------------
(* Claims about buildContext                                               *)

\* a call of buildContext has been made
Called == lastCall.outcome # "none"

\* the operations of the last call
Performed == {lastCall.log[k] : k \in 1..Len(lastCall.log)}

\* C3: whenever the header of the context text alone fits the token budget
\* handed to buildContext, the token_estimate of the context it returns is at
\* most that budget.
C3_EstimateWithinBudget ==
  (lastCall.outcome = "returned" /\ estimateTokens(Text_header) <= lastCall.maxTokens)
    => lastCall.context.token_estimate <= lastCall.maxTokens

\* C8: a call of buildContext that does not end at the cache check while the
\* embedder or Qdrant cannot be reached does not raise to its caller, and the
\* context it returns has no models and no columns when the component that
\* cannot be reached was asked.
C8_UnavailableGivesEmptyContext ==
  (Called /\ lastCall.log # <<"getResult">>
     /\ (~available.embedder \/ ~available.qdrant))
    => /\ lastCall.outcome = "returned"
       /\ (~available.qdrant \/ Performed \cap {"pipeline", "extractor"} # {})
            => /\ lastCall.context.models = <<>>
               /\ lastCall.context.columns = <<>>

\* C9: a call of buildContext with the empty string is rejected at once: it
\* reads and writes no cache entry and asks neither the embedder nor Qdrant.
C9_EmptyQueryIsRejected ==
  (Called /\ lastCall.query = QueryText_empty)
    => lastCall.outcome = "rejected" /\ lastCall.log = <<>>

\* C10: a call of buildContext for a query text whose entry of the result
\* cache is unexpired at the time of the call returns the data of that entry,
\* performs nothing but the cache lookup (no initialization, no embedding, no
\* search), and leaves the cache and the schema registry as they were.
C10_LiveEntryIsReturnedUnchanged ==
  [][calls' = calls + 1 =>
       LET entry == queryCache.resultCache[hashQuery(lastCall'.query)]
       IN  (entry.cached /\ now' - entry.timestamp <= entry.ttl)
             => /\ lastCall'.outcome = "returned"
                /\ lastCall'.context = entry.data
                /\ lastCall'.log = <<"getResult">>
                /\ queryCache' = queryCache
                /\ cachedSchema' = cachedSchema]_vars

\* C10 witness: a call that ended at the cache check and returned a context
\* with models, made when Qdrant could not be reached
C10_ServedFromCache ==
  /\ lastCall.outcome = "returned"
  /\ lastCall.log = <<"getResult">>
  /\ lastCall.context.models # <<>>
  /\ ~available.qdrant

\* the last call found no live entry, built a context and returned it
ReturnedOnMiss(call) ==
  /\ call.outcome = "returned"
  /\ \E k \in 1..Len(call.log) : call.log[k] = "cacheResult"

\* C11: a call of buildContext that returns on a cache miss leaves the
\* returned context in the result cache under its query text, and a call with
\* the same text made next, no later than DEFAULT_TTL after it, ends at the
\* cache check and returns the same models and columns in the same order.
C11_RepeatedCallIsHit ==
  [][calls' = calls + 1 =>
       /\ ReturnedOnMiss(lastCall') =>
            /\ queryCache'.resultCache[hashQuery(lastCall'.query)].cached
            /\ queryCache'.resultCache[hashQuery(lastCall'.query)].data
                 = lastCall'.context
       /\ (/\ ReturnedOnMiss(lastCall)
           /\ lastCall'.query = lastCall.query
           /\ now' - now <= DEFAULT_TTL)
            => /\ lastCall'.outcome = "returned"
               /\ lastCall'.log = <<"getResult">>
               /\ lastCall'.context.models = lastCall.context.models
               /\ lastCall'.context.columns = lastCall.context.columns]_vars

\* C27: a call of buildContext that is served from the result cache is not
\* handed a context that the call before it stored, for the same text, under
\* a larger token budget.
C27_HitIsForTheSameBudget ==
  [][(/\ calls' = calls + 1
      /\ ReturnedOnMiss(lastCall)
      /\ lastCall'.query = lastCall.query
      /\ lastCall'.outcome = "returned"
      /\ lastCall'.log = <<"getResult">>
      /\ lastCall'.context = lastCall.context)
       => lastCall'.maxTokens >= lastCall.maxTokens]_vars

\* the last call built its context during an outage: a search or the
\* embedding failed, and the context holds no model and no column
Degraded(call, reachable) ==
  /\ ReturnedOnMiss(call)
  /\ ~(reachable.embedder /\ reachable.qdrant)
  /\ call.context.models = <<>>
  /\ call.context.columns = <<>>

\* C28: once the embedder and Qdrant can be reached again, the next call of
\* buildContext for the text of a degraded context searches again instead of
\* returning the context stored during the outage.
C28_RecoveryRetrievesAgain ==
  [][(/\ calls' = calls + 1
      /\ Degraded(lastCall, available)
      /\ lastCall'.query = lastCall.query
      /\ available'.embedder /\ available'.qdrant)
       => /\ \E k \in 1..Len(lastCall'.log) : lastCall'.log[k] = "searchSemanticModels"
          /\ lastCall'.context # lastCall.context]_vars

\* C11 witness: the second of two calls with the same text, made DEFAULT_TTL
\* after the first, was served from the cache with two models and columns
C11_SecondCallServed ==
  /\ calls = 2
  /\ now = DEFAULT_TTL
  /\ lastCall.log = <<"getResult">>
  /\ Len(lastCall.context.models) = 2
  /\ lastCall.context.columns # <<>>

----------------------------------------------------------------------------
(* Claims about the cache and the embedder                                 *)

\* the step is one operation of the given name
Operation(name) ==
  /\ calls' = calls + 1
  /\ now' = now
  /\ lastCall'.name = name

Did(call, operation) ==
  \E k \in 1..Len(call.log) : call.log[k] = operation

\* C12: expiry is decided when an entry is read.  getResult of a text whose
\* entry is older than the entry's ttl misses and removes the entry, and of a
\* text whose entry is not older returns the entry's data and leaves the cache
\* alone; embedText of a text whose embedding is older than EMBEDDING_TTL runs
\* the extractor again and leaves a new entry (none when the extractor
\* throws), and of a text whose embedding is not older returns the cached
\* vector without running the extractor.
C12_ExpiryIsDecidedAtRead ==
  [][/\ Operation("getResult") =>
          LET hash == hashQuery(lastCall'.text)
              entry == queryCache.resultCache[hash]
          IN  entry.cached =>
                IF now - entry.timestamp > entry.ttl
                  THEN /\ ~lastCall'.hit
                       /\ ~queryCache'.resultCache[hash].cached
                  ELSE /\ lastCall'.hit
                       /\ lastCall'.data = entry.data
                       /\ queryCache' = queryCache
     /\ (Operation("embedText") /\ Did(lastCall', "getEmbedding")) =>
          LET hash == hashQuery(lastCall'.text)
              entry == queryCache.embeddingCache[hash]
          IN  entry.cached =>
                IF now - entry.timestamp > EMBEDDING_TTL
                  THEN /\ Did(lastCall', "extractor")
                       /\ IF lastCall'.raised
                            THEN ~queryCache'.embeddingCache[hash].cached
                            ELSE queryCache'.embeddingCache[hash].timestamp = now
                  ELSE /\ ~lastCall'.raised
                       /\ lastCall'.vector = entry.vector
                       /\ ~Did(lastCall', "extractor")
                       /\ queryCache' = queryCache]_vars

\* C12 witness: an embedder that embedded a text at time 0 is asked again
\* after EMBEDDING_TTL + 1, finds the embedding expired and computes it again
C12_EmbeddingRecomputed ==
  /\ calls = 3
  /\ now = EMBEDDING_TTL + 1
  /\ lastCall.name = "embedText"
  /\ ~lastCall.onNew
  /\ lastCall.log = <<"getEmbedding", "extractor", "cacheEmbedding">>
  /\ \A hash \in Digests :
       queryCache.embeddingCache[hash].cached
         => queryCache.embeddingCache[hash].timestamp = now

\* C16: when an embedText call failed because the model could not be loaded,
\* the next embedText call on that embedder fails too and does not run the
\* model load (pipeline) again.
C16_FailedLoadIsFinal ==
  [][(/\ Operation("embedText")
      /\ ~lastCall'.onNew
      /\ lastCall.name = "embedText"
      /\ lastCall.raised
      /\ lastCall.log = <<"pipeline">>)
       => /\ lastCall'.raised
          /\ ~Did(lastCall', "pipeline")]_vars

\* C19: cache keys are content-addressed.  A getResult that finds an entry
\* returns data that was cached under the text it was called with, never data
\* cached under another text.
C19_HitIsForTheSameText ==
  (lastCall.name = "getResult" /\ lastCall.hit)
    => lastCall.data.context_text = lastCall.text

\* C26: over any interleaving of initialize and embedText calls on one
\* embedder, the model is loaded at most once.
C26_LoadedAtMostOnce == inFlight.loaded <= 1

----------------------------------------------------------------------------
(* Claims about expandRelationships                                        *)

\* the tables the relationships of a table lead to
Targets(table) ==
  {registry[table].relationships[k].table :
     k \in 1..Len(registry[table].relationships)}

\* the tables some seed leads to by one relationship
OneAway(tableNames) ==
  {table \in DOMAIN registry :
     \E k \in 1..Len(tableNames) : table \in Targets(tableNames[k])}

\* C13: every relationship expandRelationships returns is the first or the
\* second edge of a path that starts at a seed table: it leaves a seed, or a
\* table one relationship away from a seed.
C13_EdgesWithinDepthTwo ==
  \A k \in 1..Len(lastCall.relationships) :
    \/ \E i \in 1..Len(lastCall.tableNames) :
         lastCall.relationships[k].from_table = lastCall.tableNames[i]
    \/ lastCall.relationships[k].from_table \in OneAway(lastCall.tableNames)

\* the set of the relationships of a list
Edges(relationships) == {relationships[k] : k \in 1..Len(relationships)}

\* C22: the set of relationships expandRelationships returns for two seed
\* tables does not depend on the order of the two seeds (as it would not if
\* the result were the edges of a breadth-first traversal from each seed).
C22_SeedOrderIrrelevant ==
  Len(lastCall.tableNames) = 2
    => Edges(lastCall.relationships) =
         Edges(expandRelationships(registry, <<lastCall.tableNames[2],
                                               lastCall.tableNames[1]>>))

\* the relationships traverse pushed during expandRelationships(tableNames),
\* before the pairs are made unique
Pushed(tableNames) ==
  traverseAll(registry, [relationships |-> <<>>, visited |-> {}], tableNames).relationships

\* the relationships pushed from a table
PushedFrom(tableNames, table) ==
  {k \in 1..Len(Pushed(tableNames)) : Pushed(tableNames)[k].from_table = table}

----------------------------------------------------------------------------
(* Claims about filterModelsByIntent                                       *)

\* C14: filtering by intent never empties the list of retrieved patterns: a
\* list that holds a pattern still holds one after filterModelsByIntent,
\* whatever the intent.
C14_FilterKeepsSomeModel ==
  lastCall.models # <<>> => lastCall.filtered # <<>>

----------------------------------------------------------------------------
(* Claims about runFinanceAgent                                            *)

\* the most recent validation of the run
LastValidation == agent.validated[Len(agent.validated)]

\* C1: in a run of runFinanceAgent the executor is called at most once, and
\* only when the most recent validation of the run found valid the very text
\* that is executed; while the most recent validation is invalid, nothing has
\* been executed.
C1_ExecutedOnlyAfterValid ==
  /\ agent.executed # <<>> =>
        /\ Len(agent.executed) = 1
        /\ agent.validated # <<>>
        /\ LastValidation.valid
        /\ LastValidation.sql = agent.executed[1]
  /\ (agent.validated # <<>> /\ ~LastValidation.valid) => agent.executed = <<>>

\* C1 witness: a run whose first text was rejected and whose regenerated text
\* was validated and executed
C1_ExecutedAfterRegeneration ==
  /\ Len(agent.validated) = 2
  /\ ~agent.validated[1].valid
  /\ agent.validated[2].valid
  /\ agent.executed = <<agent.validated[2].sql>>

\* C17: when the embedder or Qdrant could not be reached in STEP 2 of a run,
\* at retriever.initialize() or at a search of buildContext, the run goes on
\* and generateSQL works from the core schema description.
C17_UnreachableGivesCoreSchema ==
  (agent.contextType # "" /\ agent.failure # "none") => agent.contextType = "core"

\* what a run has generated and validated so far fits the retry rule
RetryRule ==
  /\ Len(agent.prompts) <= 2
  /\ Len(agent.validated) <= Len(agent.prompts)
  /\ agent.prompts # <<>> => agent.prompts[1] = firstPrompt(agent.userQuery)
  /\ (agent.validated # <<>> /\ agent.validated[1].valid) => Len(agent.prompts) = 1
  /\ (agent.validated # <<>> /\ ~agent.validated[1].valid)
       => \/ agent.pc = "regenerate" /\ Len(agent.prompts) = 1
          \/ /\ Len(agent.prompts) = 2
             /\ agent.prompts[2].query = agent.userQuery
             /\ agent.prompts[2].errors = validateQuery(agent.validated[1].sql).errors
             /\ agent.prompts[2].errors # <<>>
  /\ (Len(agent.validated) = 2 /\ ~agent.validated[2].valid)
       => agent.pc = "failed" /\ agent.code = "VALIDATION_FAILED"

\* C18: a first validation that fails is followed by exactly one regeneration,
\* whose prompt holds every error of that validation; a second validation
\* that fails ends the run with VALIDATION_FAILED; no run hands more than two
\* prompts to generateSQL; and every run that has started ends, with a
\* response or with an AgentException.
C18_OneRetryThenEnd ==
  /\ []RetryRule
  /\ (agent.pc = "context") ~> (agent.pc \in {"done", "failed"})

\* C18 witness: a run whose regenerated text, asked for with the errors of the
\* first validation, was rejected too
C18_SecondRejectionEndsRun ==
  /\ Len(agent.prompts) = 2
  /\ agent.prompts[2].errors # <<>>
  /\ Len(agent.validated) = 2
  /\ ~agent.validated[2].valid
  /\ agent.code = "VALIDATION_FAILED"

----------------------------------------------------------------------------
(* Claims about initializeCollections                                      *)

----------------------------------------------------------------------------
(* Claims about detectQueryIntent                                          *)

\* the rules in their order of priority: a rule fires when one of its
\* phrases occurs in the text, or all the phrases of its pair do
IntentRules ==
  <<[intent |-> "COUNT", any |-> {Phrase_how_many, Phrase_count, Phrase_total_number},
     pair |-> {}],
    [intent |-> "JOIN", any |-> {Phrase_join, Phrase_relate, Phrase_associate},
     pair |-> {Phrase_with, Phrase_their}],
    [intent |-> "TIME_BASED",
     any |-> {Phrase_month, Phrase_year, Phrase_date, Phrase_timeline, Phrase_trend,
              Phrase_over_time},
     pair |-> {}],
    [intent |-> "RANK",
     any |-> {Phrase_top, Phrase_bottom, Phrase_rank, Phrase_highest, Phrase_lowest,
              Phrase_best, Phrase_worst},
     pair |-> {}],
    [intent |-> "AGGREGATE",
     any |-> {Phrase_average, Phrase_sum, Phrase_total, Phrase_breakdown,
              Phrase_distribution, Phrase_analysis_by},
     pair |-> {}],
    [intent |-> "FILTER",
     any |-> {Phrase_where, Phrase_filter, Phrase_specific, Phrase_over_budget,
              Phrase_exceeds},
     pair |-> {}]>>

Fires(rule, text) ==
  \/ \E phrase \in rule.any : Includes(text, phrase)
  \/ rule.pair # {} /\ \A phrase \in rule.pair : Includes(text, phrase)

Firing(text) == {k \in 1..Len(IntentRules) : Fires(IntentRules[k], text)}

C24_TopIsRank ==
  (/\ lastCall.intent # "none"
   /\ \/ Includes(LowerCase(lastCall.query), Phrase_top)
      \/ Includes(LowerCase(lastCall.query), Phrase_highest))
    => lastCall.intent = "RANK"

====
